---------------------------- MODULE Spec2Model ----------------------------
(***************************************************************************)
(* The relational data model of sql_alchemy/models and the CRUD helpers of *)
(* sql_alchemy/examples/crud_operations.py, as a state machine.            *)
(*                                                                         *)
(* The store holds the four tables and the association table as the        *)
(* storage engine sees them after each commit.  The engine enforces the    *)
(* declared primary keys and unique constraints at commit time; whether it *)
(* enforces the declared foreign keys depends on the dialect of the        *)
(* database URL: the tests run on PostgreSQL (conftest.py, Init), the      *)
(* default URL of config.py is SQLite (InitDefault).  The ORM unit of work *)
(* is the single Session the helpers receive as `db`: a commit whose flush *)
(* fails leaves it inactive, and every later call on it raises until the   *)
(* caller obtains a new session.                                           *)
(*                                                                         *)
(* Beside the database stand the code that holds the session               *)
(* (examples/usage_example.py, conftest.py) and the schema exporters of    *)
(* utils/ that start pg_dump, with the directory they write to.            *)
(***************************************************************************)
EXTENDS Integers, Sequences, FiniteSets, TLC

VARIABLES
    users,      \* table users:     id -> row
    posts,      \* table posts:     id -> row
    comments,   \* table comments:  id -> row
    tags,       \* table tags:      id -> row
    post_tags,  \* association table post_tags: set of <<post_id, tag_id>>
    seq,        \* the next value of each table's id sequence
    now,        \* the clock read by datetime.utcnow
    sess,       \* the state of the Session `db`: "active" or "failed"
    dialect,    \* the dialect of the database URL the engine was created on
    appended,   \* which of the tables users and posts hold their rows in
                \* the order of insertion
    ret,        \* the outcome of the last call
    scope,      \* the code that holds the session, usage_example.main or
                \* the fixture db_session: where it stands, the generator
                \* the session came from, and the calls of session.close()
    fs,         \* the schema directory: the files and the latest alias
    run,        \* the runs of the schema exporters
    sd,         \* the directories utils/schema_dump writes: the files and
                \* the latest aliases
    calls       \* the callers that delete through sessions of their own

tables == <<users, posts, comments, tags, post_tags>>
vars == <<users, posts, comments, tags, post_tags, seq, now, sess, dialect,
          appended, ret, scope, fs, run, sd, calls>>

\* What the CRUD helpers neither read nor write.
outside == <<scope, fs, run, sd, calls>>

\* What the session scopes and the pg_dump exporters neither read nor write.
beyond == <<sd, calls>>

---------------------------------------------------------------------------
(* Bounds of the model.                                                    *)

MaxUsers == 2
MaxPosts == 2
MaxComments == 3
MaxTags == 2
MaxTime == 2
MaxRuns == 2

UserIds == 1..MaxUsers
PostIds == 1..MaxPosts
CommentIds == 1..MaxComments
TagIds == 1..MaxTags
Runs == 1..MaxRuns

---------------------------------------------------------------------------
(* Values.                                                                 *)

\* Python's None as the value of a call, and SQL NULL in an integer or a
\* timestamp column (ids and timestamps start at 1) or in a string column.
None == [none |-> TRUE]
NULL == 0
NullStr == "NULL"
True == [bool |-> TRUE]
False == [bool |-> FALSE]

Usernames == {"john_doe", "jane_smith"}
Emails == {"john@example.com", "jane@example.com"}
Titles == {"Post 1", "Updated Title"}
PostSlugs == {NullStr, "test-post"}
Contents == {"Comment 1", "Updated content"}
TagNames == {"Python", "SQLAlchemy"}
TagSlugs == {NullStr, "python"}

\* A table without the rows whose id is in D.
Without(tbl, D) == [i \in DOMAIN tbl \ D |-> tbl[i]]

\* Query.first(): the first row of the result, or None.  Rows come back in
\* ascending id order here; every caller filters on a unique column.
First(rows) ==
    IF rows = {} THEN None
    ELSE CHOOSE r \in rows : \A s \in rows : r.id <= s.id

Min(a, b) == IF a <= b THEN a ELSE b

\* The rows of a table with the ids `ids`, in ascending order of id.
RECURSIVE ById(_, _)
ById(tbl, ids) ==
    IF ids = {} THEN <<>>
    ELSE LET m == CHOOSE i \in ids : \A j \in ids : i <= j
         IN  <<tbl[m]>> \o ById(tbl, ids \ {m})

\* The orders in which a SELECT without ORDER BY can deliver the rows of
\* the table `name`: the order of insertion, which is the order of the ids,
\* for a table that still holds it, and any order otherwise.
Scan(name, tbl) ==
    IF name \in appended THEN {ById(tbl, DOMAIN tbl)}
    ELSE LET n == Cardinality(DOMAIN tbl)
         IN  {[k \in 1..n |-> tbl[o[k]]] :
                 o \in {f \in [1..n -> DOMAIN tbl] :
                           \A a, b \in 1..n : a # b => f[a] # f[b]}}

\* A page that starts at the first row: the offset is not applied.
PageWithoutOffset(rows, skip, limit) == SubSeq(rows, 1, Min(limit, Len(rows)))

\* .offset(skip).limit(limit) on the rows a query delivers.
Page(rows, skip, limit) == SubSeq(rows, skip + 1, Min(skip + limit, Len(rows)))

\* No session handed out yet.
NoScope == [pc |-> "start", gen |-> "none", closes |-> 0]

\* The latest alias does not exist.
NoLink == <<"absent", 0>>

\* The schema directory before the first run of an exporter.
EmptyDir == [files |-> {}, latest |-> NoLink]

\* subprocess.run without timeout=, and a process that has not exited.
NoTimeout == 0
NoCode == -1

\* An exporter that has not been started: the command line, the function
\* it is in and the place in it, the dump process it waits for, the
\* timestamp of its file names, the files the function has written, the
\* steps that failed, what the dump function returned, and the exit code;
\* also what run_alembic_migrations returned, and what created the tables
\* of the database that is dumped ("alembic", "create_all" or "none").
Idle ==
    [cli |-> "none", mode |-> "none", fn |-> "none", pc |-> "idle",
     child |-> "none", timeout |-> NoTimeout, stamp |-> 0, written |-> {},
     failed |-> {}, result |-> "none", code |-> NoCode,
     alembic |-> None, schema |-> "none"]

NoRuns == [r \in Runs |-> Idle]

\* The directories utils/schema_dump can write to: its default and the
\* one --output-dir names.
Dirs == {"schema", "out"}

\* The files of utils/schema_dump are schema_<kind>_<timestamp>.sql and the
\* aliases schema_<kind>_latest.sql, one kind per dialect, "all" for the
\* combined file and "from_db" for the reflected schema.
DialectNames == {"postgresql", "mysql", "sqlite"}
Kinds == DialectNames \cup {"all", "from_db"}

\* No alias of that name in that directory.
NoStamp == 0

\* Nothing written yet: no file <<dir, kind, timestamp>>, and no alias.
EmptyDirs ==
    [files |-> {}, latest |-> [k \in Dirs \X Kinds |-> NoStamp]]

\* The callers of the delete helpers that hold a session each: where the
\* call stands, the helper and the id it was called with, the value it
\* returned and the exception it raised.
Callers == {1, 2}
NotCalling ==
    [pc |-> "idle", op |-> "none", id |-> 0, val |-> "none", exc |-> ""]
NoCalls == [c \in Callers |-> NotCalling]

---------------------------------------------------------------------------
(* The outcome of a call: the call and its arguments, the exception it     *)
(* raised ("" when it returned), the value it returned, and the rows the   *)
(* DELETE statements of its flush removed.                                 *)

NoRows == [users |-> {}, posts |-> {}, comments |-> <<>>, post_tags |-> {}]

Outcome(op, args, exc, val, del) ==
    [op |-> op, args |-> args, exc |-> exc, val |-> val, deleted |-> del]

Returns(op, args, val) == ret' = Outcome(op, args, "", val, NoRows)

\* The call raises: nothing was committed.  A flush that failed inside
\* commit() leaves the session inactive.
Raises(op, args, exc) ==
    /\ ret' = Outcome(op, args, exc, None, NoRows)
    /\ sess' = "failed"

\* A call on a session whose last flush failed.
PendingRollback(op, args) ==
    /\ Raises(op, args, "PendingRollbackError")
    /\ UNCHANGED <<tables, seq, now, dialect, appended, outside>>

---------------------------------------------------------------------------
(* Rows: the columns of each model and their defaults.                     *)

\* id = Column(Integer, primary_key=True): PostgreSQL draws the id from the
\* table's sequence; SQLite takes the largest stored rowid plus one.
NextId(tbl, s) ==
    IF dialect # "sqlite" THEN s
    ELSE IF DOMAIN tbl = {} THEN 1
    ELSE (CHOOSE i \in DOMAIN tbl : \A j \in DOMAIN tbl : j <= i) + 1

\* The sequences after an INSERT into table t stored the id `id`.
Advance(t, id) ==
    IF dialect # "sqlite" THEN [seq EXCEPT ![t] = id + 1] ELSE seq

\* The value of `appended` after a commit whose UPDATE and DELETE statements
\* changed rows of the tables T.  A PostgreSQL heap keeps the rows in the
\* order of insertion only as long as none was updated or deleted; an SQLite
\* table is a B-tree on the rowid whatever was done to it.
Touched(T) == IF dialect # "sqlite" THEN appended \ T ELSE appended

\* models/user.py: the User columns and their defaults.
UserRow(id, username, email, password) ==
    [id |-> id, username |-> username, email |-> email,
     hashed_password |-> password, full_name |-> NullStr, bio |-> NullStr,
     is_active |-> TRUE, is_superuser |-> FALSE,
     created_at |-> now, updated_at |-> now]

\* A Post whose is_published defaults to True.
PostRowPublished(id, title, content, author_id, kw) ==
    [id |-> id, title |-> title,
     slug |-> IF "slug" \in kw.set THEN kw.slug ELSE NullStr,
     content |-> content, summary |-> NullStr,
     is_published |-> TRUE, published_at |-> NULL, view_count |-> 0,
     author_id |-> author_id, created_at |-> now, updated_at |-> now]

\* models/post.py, class Post.  kw is **kwargs: the slug, given or not.
PostRow(id, title, content, author_id, kw) ==
    [id |-> id, title |-> title,
     slug |-> IF "slug" \in kw.set THEN kw.slug ELSE NullStr,
     content |-> content, summary |-> NullStr,
     is_published |-> FALSE, published_at |-> NULL, view_count |-> 0,
     author_id |-> author_id, created_at |-> now, updated_at |-> now]

\* models/post.py, class Tag.
TagRow(id, name, kw) ==
    [id |-> id, name |-> name,
     slug |-> IF "slug" \in kw.set THEN kw.slug ELSE NullStr,
     description |-> NullStr, created_at |-> now]

\* models/comment.py, class Comment.
CommentRow(id, content, author_id, post_id, parent_id) ==
    [id |-> id, content |-> content, is_approved |-> TRUE,
     author_id |-> author_id, post_id |-> post_id, parent_id |-> parent_id,
     created_at |-> now, updated_at |-> now]

---------------------------------------------------------------------------
(* The constraints the engine checks when a flush writes a table.          *)

\* create_engine(database_url, **engine_kwargs): a PostgreSQL connection
\* checks foreign keys; a SQLite connection checks them only after PRAGMA
\* foreign_keys=ON, which the engine's connect_args do not issue.
ForeignKeys == dialect # "sqlite"

\* users: unique username, unique email.
UsersOk(us) ==
    \A i, j \in DOMAIN us :
        i # j => us[i].username # us[j].username /\ us[i].email # us[j].email

\* posts with slug declared without unique=True.
PostsOkAnySlug(ps, us) ==
    ForeignKeys => \A i \in DOMAIN ps : ps[i].author_id \in DOMAIN us

\* posts: unique slug (NULLs do not collide), author_id references users.
PostsOk(ps, us) ==
    /\ \A i, j \in DOMAIN ps :
           i # j /\ ps[i].slug # NullStr => ps[i].slug # ps[j].slug
    /\ ForeignKeys => \A i \in DOMAIN ps : ps[i].author_id \in DOMAIN us

\* tags: unique name, unique slug (NULLs do not collide).
TagsOk(ts) ==
    \A i, j \in DOMAIN ts :
        i # j => /\ ts[i].name # ts[j].name
                 /\ ts[i].slug # NullStr => ts[i].slug # ts[j].slug

\* comments whose parent_id must be a comment of the same post.
CommentsOkOnSamePost(cs, us, ps) ==
    ForeignKeys => \A i \in DOMAIN cs :
        /\ cs[i].author_id \in DOMAIN us
        /\ cs[i].post_id \in DOMAIN ps
        /\ cs[i].parent_id # NULL =>
              /\ cs[i].parent_id \in DOMAIN cs
              /\ cs[cs[i].parent_id].post_id = cs[i].post_id

\* comments: author_id references users, post_id references posts, and
\* parent_id, when not NULL, references comments.
CommentsOk(cs, us, ps) ==
    ForeignKeys => \A i \in DOMAIN cs :
        /\ cs[i].author_id \in DOMAIN us
        /\ cs[i].post_id \in DOMAIN ps
        /\ cs[i].parent_id # NULL => cs[i].parent_id \in DOMAIN cs

---------------------------------------------------------------------------
(* **kwargs.  A patch names the attributes it sets ("set") and carries a   *)
(* value for each; an attribute outside "set" carries a filler.            *)

NoKw == [set |-> {}, slug |-> NullStr]
SlugKw(slugs) == {NoKw} \cup {[set |-> {"slug"}, slug |-> s] : s \in slugs}

UserPatches ==
    {p \in [set : SUBSET {"username", "email"},
            username : Usernames, email : Emails] :
        /\ "username" \notin p.set => p.username = "john_doe"
        /\ "email" \notin p.set => p.email = "john@example.com"}

PostPatches ==
    {p \in [set : SUBSET {"title", "slug", "is_published", "author_id"},
            title : Titles, slug : PostSlugs, is_published : BOOLEAN,
            author_id : UserIds] :
        /\ "title" \notin p.set => p.title = "Post 1"
        /\ "slug" \notin p.set => p.slug = NullStr
        /\ "is_published" \notin p.set => p.is_published = FALSE
        /\ "author_id" \notin p.set => p.author_id = 1}

\* setattr for every attribute the patch carries, named or not.
SetAllAttrs(row, p) ==
    [f \in DOMAIN row |-> IF f \in DOMAIN p \ {"set"} THEN p[f] ELSE row[f]]

\* for key, value in kwargs.items(): setattr(row, key, value)
SetAttrs(row, p) ==
    [f \in DOMAIN row |-> IF f \in p.set THEN p[f] ELSE row[f]]

\* The UPDATE a flush emits for a modified row: none when no attribute has a
\* net change, else the changed columns and updated_at (onupdate).
Flushed(old, new) ==
    IF new = old THEN old ELSE [new EXCEPT !.updated_at = now]

---------------------------------------------------------------------------
(* Deleting through the unit of work.                                      *)

\* A flush that deletes only the top-level comments of D and leaves their
\* replies stored.
DeleteTopLevelComments(cs, D) ==
    LET T == {c \in D \cap DOMAIN cs : cs[c].parent_id = NULL}
    IN  [c \in DOMAIN cs \ T |->
            IF cs[c].parent_id \in T
            THEN [cs[c] EXCEPT !.parent_id = NULL, !.updated_at = now]
            ELSE cs[c]]

\* The comments of cs that reply to a comment of S.
RepliesTo(cs, S) == {d \in DOMAIN cs : cs[d].parent_id \in S}

\* The comments of S and every comment below them in the reply relation.
RECURSIVE Subtree(_, _)
Subtree(cs, S) ==
    LET T == S \cup RepliesTo(cs, S)
    IN  IF T = S THEN S ELSE Subtree(cs, T)

\* A flush that leaves the replies to the database, whose ON DELETE CASCADE
\* removes every comment below a deleted one.
DeleteCommentsAndReplies(cs, D) ==
    [c \in DOMAIN cs \ Subtree(cs, D) |-> cs[c]]

\* The flush of a set D of Comment deletes.  Comment.replies (the backref of
\* Comment.parent) has no delete cascade: a reply that is not itself deleted
\* has its parent_id set to NULL by an UPDATE before its parent's DELETE.
DeleteComments(cs, D) ==
    [c \in DOMAIN cs \ D |->
        IF cs[c].parent_id \in D
        THEN [cs[c] EXCEPT !.parent_id = NULL, !.updated_at = now]
        ELSE cs[c]]

\* Post.comments without a delete cascade.
NoCommentsOfPosts(P) == {}

\* Post.comments: cascade="all, delete-orphan".
CommentsOfPosts(P) == {c \in DOMAIN comments : comments[c].post_id \in P}

\* A flush that deletes the posts P and leaves their post_tags rows.
TagsKept(P) == post_tags

\* The rows of post_tags a flush removes with the posts P.
TagsWithout(P) == {pt \in post_tags : pt[1] \notin P}

\* The rows the DELETE statements of a flush remove, as stored before it.
Deleted(U, P, C) ==
    [users |-> U, posts |-> P, comments |-> [c \in C |-> comments[c]],
     post_tags |-> {pt \in post_tags : pt[1] \in P}]

---------------------------------------------------------------------------
Init ==
    /\ users = <<>>
    /\ posts = <<>>
    /\ comments = <<>>
    /\ tags = <<>>
    /\ post_tags = {}
    /\ seq = [users |-> 1, posts |-> 1, comments |-> 1, tags |-> 1]
    /\ now = 1
    /\ sess = "active"
    /\ dialect = "postgresql"
    /\ appended = {"users", "posts"}
    /\ scope = NoScope
    /\ fs = EmptyDir
    /\ run = NoRuns
    /\ sd = EmptyDirs
    /\ calls = NoCalls
    /\ ret = Outcome("init", <<>>, "", None, NoRows)

\* DatabaseConfig() without a DATABASE_URL: "sqlite:///./sql_alchemy/test.db".
InitDefault ==
    /\ users = <<>>
    /\ posts = <<>>
    /\ comments = <<>>
    /\ tags = <<>>
    /\ post_tags = {}
    /\ seq = [users |-> 1, posts |-> 1, comments |-> 1, tags |-> 1]
    /\ now = 1
    /\ sess = "active"
    /\ dialect = "sqlite"
    /\ appended = {"users", "posts"}
    /\ scope = NoScope
    /\ fs = EmptyDir
    /\ run = NoRuns
    /\ sd = EmptyDirs
    /\ calls = NoCalls
    /\ ret = Outcome("init", <<>>, "", None, NoRows)

\* datetime.utcnow advances between calls.
Tick ==
    /\ now < MaxTime
    /\ now' = now + 1
    /\ UNCHANGED <<tables, seq, sess, dialect, appended, outside, ret>>

\* config.get_session / conftest.db_session: the caller closes the session
\* and obtains a new one on the same database.
get_session ==
    /\ sess' = "active"
    /\ ret' = Outcome("get_session", <<>>, "", None, NoRows)
    /\ UNCHANGED <<tables, seq, now, dialect, appended, outside>>

---------------------------------------------------------------------------
(* UserCRUD.                                                               *)

\* create_user on a table whose unique columns are not checked.
create_user_unchecked(username, email, password) ==
    LET args == [username |-> username, email |-> email, password |-> password]
        user == UserRow(NextId(users, seq.users), username, email, password)
        us == (user.id :> user) @@ users
    IN  /\ user.id <= MaxUsers
        /\ IF sess # "active" THEN PendingRollback("create_user", args)
           ELSE /\ users' = us
                /\ seq' = Advance("users", user.id)
                /\ Returns("create_user", args, us[user.id])
                /\ UNCHANGED <<posts, comments, tags, post_tags, now, dialect, appended, outside, sess>>

create_user(username, email, password) ==
    LET args == [username |-> username, email |-> email, password |-> password]
        user == UserRow(NextId(users, seq.users), username, email, password)
        us == (user.id :> user) @@ users
    IN  /\ user.id <= MaxUsers
        /\ IF sess # "active" THEN PendingRollback("create_user", args)
           ELSE /\ IF UsersOk(us)
                   THEN /\ users' = us
                        /\ seq' = Advance("users", user.id)
                        /\ Returns("create_user", args, us[user.id])
                        /\ UNCHANGED sess
                   ELSE /\ Raises("create_user", args, "IntegrityError")
                        /\ UNCHANGED <<users, seq>>
                /\ UNCHANGED <<posts, comments, tags, post_tags, now, dialect, appended, outside>>

\* db.query(User).filter(User.id == user_id).first()
UserById(us, user_id) == First({us[i] : i \in {j \in DOMAIN us : j = user_id}})

\* db.query(User).filter(User.email == email).first()
UserByEmail(us, email) ==
    First({us[i] : i \in {j \in DOMAIN us : us[j].email = email}})

get_user(user_id) ==
    LET args == [user_id |-> user_id]
    IN  IF sess # "active" THEN PendingRollback("get_user", args)
        ELSE /\ Returns("get_user", args, UserById(users, user_id))
             /\ UNCHANGED <<tables, seq, now, dialect, appended, outside, sess>>

get_user_by_email(email) ==
    LET args == [email |-> email]
    IN  IF sess # "active" THEN PendingRollback("get_user_by_email", args)
        ELSE /\ Returns("get_user_by_email", args, UserByEmail(users, email))
             /\ UNCHANGED <<tables, seq, now, dialect, appended, outside, sess>>

\* skip: int = 0, limit: int = 100
DefaultUserLimit == 100

get_users(skip, limit) ==
    LET args == [skip |-> skip, limit |-> limit]
    IN  IF sess # "active" THEN PendingRollback("get_users", args)
        ELSE /\ \E rows \in Scan("users", users) :
                    Returns("get_users", args, Page(rows, skip, limit))
             /\ UNCHANGED <<tables, seq, now, dialect, appended, outside, sess>>

update_user(user_id, kwargs) ==
    LET args == [user_id |-> user_id, kwargs |-> kwargs]
        user == UserById(users, user_id)
        us == [users EXCEPT ![user_id] = Flushed(user, SetAttrs(user, kwargs))]
    IN  IF sess # "active" THEN PendingRollback("update_user", args)
        ELSE IF user = None
        THEN /\ Returns("update_user", args, None)
             /\ UNCHANGED <<tables, seq, now, dialect, appended, outside, sess>>
        ELSE /\ IF UsersOk(us)
                THEN /\ users' = us
                     /\ appended' = IF us # users THEN Touched({"users"})
                                    ELSE appended
                     /\ Returns("update_user", args, us[user_id])
                     /\ UNCHANGED sess
                ELSE /\ Raises("update_user", args, "IntegrityError")
                     /\ UNCHANGED <<users, appended>>
             /\ UNCHANGED <<posts, comments, tags, post_tags, seq, now, dialect, outside>>

\* models/user.py: User.posts and User.comments cascade the delete, and
\* Post.comments cascades it on from each post.
UserCascade(user_id) ==
    LET P == {p \in DOMAIN posts : posts[p].author_id = user_id}
    IN  [users |-> {user_id},
         posts |-> P,
         comments |-> CommentsOfPosts(P) \cup
                      {c \in DOMAIN comments : comments[c].author_id = user_id}]

delete_user(user_id) ==
    LET args == [user_id |-> user_id]
        user == UserById(users, user_id)
        del == UserCascade(user_id)
    IN  IF sess # "active" THEN PendingRollback("delete_user", args)
        ELSE IF user = None
        THEN /\ Returns("delete_user", args, False)
             /\ UNCHANGED <<tables, seq, now, dialect, appended, outside, sess>>
        ELSE /\ users' = Without(users, del.users)
             /\ posts' = Without(posts, del.posts)
             /\ comments' = DeleteComments(comments, del.comments)
             /\ post_tags' = TagsWithout(del.posts)
             /\ appended' = Touched({"users"} \cup
                                    IF del.posts # {} THEN {"posts"} ELSE {})
             /\ ret' = Outcome("delete_user", args, "", True,
                               Deleted(del.users, del.posts, del.comments))
             /\ UNCHANGED <<tags, seq, now, dialect, outside, sess>>

---------------------------------------------------------------------------
(* PostCRUD.                                                               *)

\* create_post with db.flush() in place of db.commit(): the row has its id
\* and its defaults, and no other unit of work sees it.
create_post_uncommitted(title, content, author_id, kwargs) ==
    LET args == [title |-> title, content |-> content,
                 author_id |-> author_id, kwargs |-> kwargs]
        post == PostRow(NextId(posts, seq.posts), title, content, author_id, kwargs)
        ps == (post.id :> post) @@ posts
    IN  /\ post.id <= MaxPosts
        /\ IF sess # "active" THEN PendingRollback("create_post", args)
           ELSE /\ IF PostsOk(ps, users)
                   THEN /\ seq' = Advance("posts", post.id)
                        /\ Returns("create_post", args, ps[post.id])
                        /\ UNCHANGED <<posts, sess>>
                   ELSE /\ Raises("create_post", args, "IntegrityError")
                        /\ UNCHANGED <<posts, seq>>
                /\ UNCHANGED <<users, comments, tags, post_tags, now, dialect, appended, outside>>

create_post(title, content, author_id, kwargs) ==
    LET args == [title |-> title, content |-> content,
                 author_id |-> author_id, kwargs |-> kwargs]
        post == PostRow(NextId(posts, seq.posts), title, content, author_id, kwargs)
        ps == (post.id :> post) @@ posts
    IN  /\ post.id <= MaxPosts
        /\ IF sess # "active" THEN PendingRollback("create_post", args)
           ELSE /\ IF PostsOk(ps, users)
                   THEN /\ posts' = ps
                        /\ seq' = Advance("posts", post.id)
                        /\ Returns("create_post", args, ps[post.id])
                        /\ UNCHANGED sess
                   ELSE /\ Raises("create_post", args, "IntegrityError")
                        /\ UNCHANGED <<posts, seq>>
                /\ UNCHANGED <<users, comments, tags, post_tags, now, dialect, appended, outside>>

\* db.query(Post).filter(Post.id == post_id).first()
PostById(ps, post_id) == First({ps[i] : i \in {j \in DOMAIN ps : j = post_id}})

get_post(post_id) ==
    LET args == [post_id |-> post_id]
    IN  IF sess # "active" THEN PendingRollback("get_post", args)
        ELSE /\ Returns("get_post", args, PostById(posts, post_id))
             /\ UNCHANGED <<tables, seq, now, dialect, appended, outside, sess>>

\* skip: int = 0, limit: int = 10
DefaultPostLimit == 10

get_posts(skip, limit) ==
    LET args == [skip |-> skip, limit |-> limit]
    IN  IF sess # "active" THEN PendingRollback("get_posts", args)
        ELSE /\ \E rows \in Scan("posts", posts) :
                    Returns("get_posts", args, Page(rows, skip, limit))
             /\ UNCHANGED <<tables, seq, now, dialect, appended, outside, sess>>

update_post(post_id, kwargs) ==
    LET args == [post_id |-> post_id, kwargs |-> kwargs]
        post == PostById(posts, post_id)
        ps == [posts EXCEPT ![post_id] = Flushed(post, SetAttrs(post, kwargs))]
    IN  IF sess # "active" THEN PendingRollback("update_post", args)
        ELSE IF post = None
        THEN /\ Returns("update_post", args, None)
             /\ UNCHANGED <<tables, seq, now, dialect, appended, outside, sess>>
        ELSE /\ IF PostsOk(ps, users)
                THEN /\ posts' = ps
                     /\ appended' = IF ps # posts THEN Touched({"posts"})
                                    ELSE appended
                     /\ Returns("update_post", args, ps[post_id])
                     /\ UNCHANGED sess
                ELSE /\ Raises("update_post", args, "IntegrityError")
                     /\ UNCHANGED <<posts, appended>>
             /\ UNCHANGED <<users, comments, tags, post_tags, seq, now, dialect, outside>>

\* delete_post with `return True` outside the `if post:` block.
delete_post_always_true(post_id) ==
    LET args == [post_id |-> post_id]
        post == PostById(posts, post_id)
        D == CommentsOfPosts({post_id})
    IN  IF sess # "active" THEN PendingRollback("delete_post", args)
        ELSE IF post = None
        THEN /\ Returns("delete_post", args, True)
             /\ UNCHANGED <<tables, seq, now, dialect, appended, outside, sess>>
        ELSE /\ posts' = Without(posts, {post_id})
             /\ comments' = DeleteComments(comments, D)
             /\ post_tags' = TagsWithout({post_id})
             /\ appended' = Touched({"posts"})
             /\ ret' = Outcome("delete_post", args, "", True,
                               Deleted({}, {post_id}, D))
             /\ UNCHANGED <<users, tags, seq, now, dialect, outside, sess>>

delete_post(post_id) ==
    LET args == [post_id |-> post_id]
        post == PostById(posts, post_id)
        D == CommentsOfPosts({post_id})
    IN  IF sess # "active" THEN PendingRollback("delete_post", args)
        ELSE IF post = None
        THEN /\ Returns("delete_post", args, False)
             /\ UNCHANGED <<tables, seq, now, dialect, appended, outside, sess>>
        ELSE /\ posts' = Without(posts, {post_id})
             /\ comments' = DeleteComments(comments, D)
             /\ post_tags' = TagsWithout({post_id})
             /\ appended' = Touched({"posts"})
             /\ ret' = Outcome("delete_post", args, "", True,
                               Deleted({}, {post_id}, D))
             /\ UNCHANGED <<users, tags, seq, now, dialect, outside, sess>>

\* db.query(Tag).filter(Tag.id == tag_id).first()
TagById(ts, tag_id) == First({ts[i] : i \in {j \in DOMAIN ts : j = tag_id}})

\* db.query(Tag).filter(Tag.name == name).first()
TagByName(ts, name) ==
    First({ts[i] : i \in {j \in DOMAIN ts : ts[j].name = name}})

\* post.tags: the tags post_tags joins to the post.
PostTagList(pts, post_id) == {pt[2] : pt \in {x \in pts : x[1] = post_id}}

\* add_tag_to_post with `if post:` in place of `if post and tag:`.
add_tag_to_post_unchecked(post_id, tag_id) ==
    LET args == [post_id |-> post_id, tag_id |-> tag_id]
        post == PostById(posts, post_id)
    IN  IF sess # "active" THEN PendingRollback("add_tag_to_post", args)
        ELSE IF post # None
        THEN /\ post_tags' = post_tags \cup {<<post_id, tag_id>>}
             /\ Returns("add_tag_to_post", args, post)
             /\ UNCHANGED <<users, posts, comments, tags, seq, now, dialect, appended, outside, sess>>
        ELSE /\ Returns("add_tag_to_post", args, None)
             /\ UNCHANGED <<tables, seq, now, dialect, appended, outside, sess>>

\* post.tags.append(tag) adds a row to post_tags unless the loaded
\* collection already holds the tag.
add_tag_to_post(post_id, tag_id) ==
    LET args == [post_id |-> post_id, tag_id |-> tag_id]
        post == PostById(posts, post_id)
        tag == TagById(tags, tag_id)
    IN  IF sess # "active" THEN PendingRollback("add_tag_to_post", args)
        ELSE IF post # None /\ tag # None
        THEN /\ post_tags' = post_tags \cup {<<post_id, tag_id>>}
             /\ Returns("add_tag_to_post", args, post)
             /\ UNCHANGED <<users, posts, comments, tags, seq, now, dialect, appended, outside, sess>>
        ELSE /\ Returns("add_tag_to_post", args, None)
             /\ UNCHANGED <<tables, seq, now, dialect, appended, outside, sess>>

---------------------------------------------------------------------------
(* CommentCRUD.                                                            *)

create_comment(content, author_id, post_id, parent_id) ==
    LET args == [content |-> content, author_id |-> author_id,
                 post_id |-> post_id, parent_id |-> parent_id]
        comment == CommentRow(NextId(comments, seq.comments), content, author_id, post_id, parent_id)
        cs == (comment.id :> comment) @@ comments
    IN  /\ comment.id <= MaxComments
        /\ IF sess # "active" THEN PendingRollback("create_comment", args)
           ELSE /\ IF CommentsOk(cs, users, posts)
                   THEN /\ comments' = cs
                        /\ seq' = Advance("comments", comment.id)
                        /\ Returns("create_comment", args, cs[comment.id])
                        /\ UNCHANGED sess
                   ELSE /\ Raises("create_comment", args, "IntegrityError")
                        /\ UNCHANGED <<comments, seq>>
                /\ UNCHANGED <<users, posts, tags, post_tags, now, dialect, appended, outside>>

\* db.query(Comment).filter(Comment.id == comment_id).first()
CommentById(cs, comment_id) ==
    First({cs[i] : i \in {j \in DOMAIN cs : j = comment_id}})

get_comment(comment_id) ==
    LET args == [comment_id |-> comment_id]
    IN  IF sess # "active" THEN PendingRollback("get_comment", args)
        ELSE /\ Returns("get_comment", args, CommentById(comments, comment_id))
             /\ UNCHANGED <<tables, seq, now, dialect, appended, outside, sess>>

\* get_post_comments without the filter on parent_id.
get_post_comments_all(post_id) ==
    LET args == [post_id |-> post_id]
    IN  IF sess # "active" THEN PendingRollback("get_post_comments", args)
        ELSE /\ Returns("get_post_comments", args,
                        {comments[c] : c \in CommentsOfPosts({post_id})})
             /\ UNCHANGED <<tables, seq, now, dialect, appended, outside, sess>>

\* A list result is modelled by the set of its rows: the queries carry no
\* ORDER BY.
get_post_comments(post_id) ==
    LET args == [post_id |-> post_id]
        rows == {c \in DOMAIN comments :
                    /\ comments[c].post_id = post_id
                    /\ comments[c].parent_id = NULL}
    IN  IF sess # "active" THEN PendingRollback("get_post_comments", args)
        ELSE /\ Returns("get_post_comments", args, {comments[c] : c \in rows})
             /\ UNCHANGED <<tables, seq, now, dialect, appended, outside, sess>>

get_comment_replies(parent_id) ==
    LET args == [parent_id |-> parent_id]
        rows == {c \in DOMAIN comments : comments[c].parent_id = parent_id}
    IN  IF sess # "active" THEN PendingRollback("get_comment_replies", args)
        ELSE /\ Returns("get_comment_replies", args, {comments[c] : c \in rows})
             /\ UNCHANGED <<tables, seq, now, dialect, appended, outside, sess>>

update_comment(comment_id, content) ==
    LET args == [comment_id |-> comment_id, content |-> content]
        comment == CommentById(comments, comment_id)
        cs == [comments EXCEPT ![comment_id] =
                   Flushed(comment, [comment EXCEPT !.content = content])]
    IN  IF sess # "active" THEN PendingRollback("update_comment", args)
        ELSE IF comment = None
        THEN /\ Returns("update_comment", args, None)
             /\ UNCHANGED <<tables, seq, now, dialect, appended, outside, sess>>
        ELSE /\ comments' = cs
             /\ Returns("update_comment", args, cs[comment_id])
             /\ UNCHANGED <<users, posts, tags, post_tags, seq, now, dialect, appended, outside, sess>>

\* delete_comment without db.commit(): the DELETE never reaches the store.
delete_comment_uncommitted(comment_id) ==
    LET args == [comment_id |-> comment_id]
        comment == CommentById(comments, comment_id)
    IN  IF sess # "active" THEN PendingRollback("delete_comment", args)
        ELSE IF comment = None
        THEN /\ Returns("delete_comment", args, False)
             /\ UNCHANGED <<tables, seq, now, dialect, appended, outside, sess>>
        ELSE /\ ret' = Outcome("delete_comment", args, "", True,
                               Deleted({}, {}, {comment_id}))
             /\ UNCHANGED <<tables, seq, now, dialect, appended, outside, sess>>

delete_comment(comment_id) ==
    LET args == [comment_id |-> comment_id]
        comment == CommentById(comments, comment_id)
    IN  IF sess # "active" THEN PendingRollback("delete_comment", args)
        ELSE IF comment = None
        THEN /\ Returns("delete_comment", args, False)
             /\ UNCHANGED <<tables, seq, now, dialect, appended, outside, sess>>
        ELSE /\ comments' = DeleteComments(comments, {comment_id})
             /\ ret' = Outcome("delete_comment", args, "", True,
                               Deleted({}, {}, {comment_id}))
             /\ UNCHANGED <<users, posts, tags, post_tags, seq, now, dialect, appended, outside, sess>>

---------------------------------------------------------------------------
(* TagCRUD.                                                                *)

create_tag(name, kwargs) ==
    LET args == [name |-> name, kwargs |-> kwargs]
        tag == TagRow(NextId(tags, seq.tags), name, kwargs)
        ts == (tag.id :> tag) @@ tags
    IN  /\ tag.id <= MaxTags
        /\ IF sess # "active" THEN PendingRollback("create_tag", args)
           ELSE /\ IF TagsOk(ts)
                   THEN /\ tags' = ts
                        /\ seq' = Advance("tags", tag.id)
                        /\ Returns("create_tag", args, ts[tag.id])
                        /\ UNCHANGED sess
                   ELSE /\ Raises("create_tag", args, "IntegrityError")
                        /\ UNCHANGED <<tags, seq>>
                /\ UNCHANGED <<users, posts, comments, post_tags, now, dialect, appended, outside>>

get_tag(tag_id) ==
    LET args == [tag_id |-> tag_id]
    IN  IF sess # "active" THEN PendingRollback("get_tag", args)
        ELSE /\ Returns("get_tag", args, TagById(tags, tag_id))
             /\ UNCHANGED <<tables, seq, now, dialect, appended, outside, sess>>

get_tag_by_name(name) ==
    LET args == [name |-> name]
    IN  IF sess # "active" THEN PendingRollback("get_tag_by_name", args)
        ELSE /\ Returns("get_tag_by_name", args, TagByName(tags, name))
             /\ UNCHANGED <<tables, seq, now, dialect, appended, outside, sess>>

\* Tag.posts with the two columns of post_tags taken for each other.
PostsByTagSwapped(pts, ps, tag_id) ==
    {ps[p] : p \in {q \in DOMAIN ps : <<tag_id, q>> \in pts}}

\* tag.posts: the posts post_tags joins to the tag.
PostsByTag(pts, ps, tag_id) ==
    {ps[p] : p \in {q \in DOMAIN ps : <<q, tag_id>> \in pts}}

\* return tag.posts if tag else []
get_posts_by_tag(tag_id) ==
    LET args == [tag_id |-> tag_id]
        tag == TagById(tags, tag_id)
    IN  IF sess # "active" THEN PendingRollback("get_posts_by_tag", args)
        ELSE /\ Returns("get_posts_by_tag", args,
                        IF tag # None THEN PostsByTag(post_tags, posts, tag_id)
                        ELSE {})
             /\ UNCHANGED <<tables, seq, now, dialect, appended, outside, sess>>

---------------------------------------------------------------------------
(* Inputs.                                                                 *)

\* The two accounts of examples/usage_example.py.
Accounts ==
    {<<"john_doe", "john@example.com">>, <<"jane_smith", "jane@example.com">>}

Password == "hashed_password_123"

AuthorPatches == {p \in PostPatches : p.set = {"author_id"}}
SlugPatches == {p \in PostPatches : p.set = {"slug"}}
FieldPatches ==
    {p \in PostPatches :
        /\ p.set \subseteq {"title", "is_published"}
        /\ "title" \in p.set => p.title = "Updated Title"
        /\ "is_published" \in p.set => p.is_published}
TitlePatches == {p \in PostPatches : p.set \subseteq {"title"}}
EmailPatches == {p \in UserPatches : p.set \subseteq {"email"}}

---------------------------------------------------------------------------
(* Spec: users, posts and comments; creation, re-parenting and deletion.   *)

Next ==
    \/ get_session
    \/ \E a \in Accounts : create_user(a[1], a[2], Password)
    \/ \E id \in UserIds : delete_user(id)
    \/ \E a \in UserIds : create_post("Post 1", "Content 1", a, NoKw)
    \/ \E id \in PostIds, p \in AuthorPatches : update_post(id, p)
    \/ \E id \in PostIds : delete_post(id)
    \/ \E a \in UserIds, p \in PostIds, par \in CommentIds \cup {NULL} :
           create_comment("Comment 1", a, p, par)
    \/ \E id \in CommentIds : delete_comment(id)

Spec == Init /\ [][Next]_vars

---------------------------------------------------------------------------
(* SpecKeys: the unique columns of users, posts and tags.                  *)

NextKeys ==
    \/ get_session
    \/ \E u \in Usernames, e \in Emails : create_user(u, e, Password)
    \/ \E id \in UserIds : get_user(id)
    \/ \E e \in Emails : get_user_by_email(e)
    \/ \E id \in UserIds, p \in UserPatches : update_user(id, p)
    \/ \E kw \in SlugKw(PostSlugs \ {NullStr}) :
           create_post("Post 1", "Content 1", 1, kw)
    \/ \E id \in PostIds, p \in SlugPatches : update_post(id, p)
    \/ \E n \in TagNames, kw \in SlugKw(TagSlugs \ {NullStr}) : create_tag(n, kw)

SpecKeys == Init /\ [][NextKeys]_vars

---------------------------------------------------------------------------
(* SpecFields: the columns of a row through create, get and update, with  *)
(* the clock running.                                                      *)

MaxFieldUsers == 1
MaxFieldComments == 1

NextFields ==
    \/ Tick
    \/ get_session
    \/ /\ seq.users <= MaxFieldUsers
       /\ \E a \in Accounts : create_user(a[1], a[2], Password)
    \/ \E id \in DOMAIN users : get_user(id)
    \/ \E id \in DOMAIN users, p \in EmailPatches : update_user(id, p)
    \/ create_post("Post 1", "Content 1", 1, NoKw)
    \/ \E id \in DOMAIN posts : get_post(id)
    \/ \E id \in DOMAIN posts, p \in FieldPatches : update_post(id, p)
    \/ /\ seq.comments <= MaxFieldComments
       /\ create_comment("Comment 1", 1, 1, NULL)
    \/ \E id \in DOMAIN comments : get_comment(id)
    \/ \E id \in DOMAIN comments, c \in Contents : update_comment(id, c)

SpecFields == Init /\ [][NextFields]_vars

---------------------------------------------------------------------------
(* SpecLookup: lookups, updates and deletes by id and by natural key, on   *)
(* ids that are stored and ids that are not.                               *)

MaxLookupComments == 1
MaxLookupTags == 1

NextLookup ==
    \/ get_session
    \/ \E a \in Accounts : create_user(a[1], a[2], Password)
    \/ \E id \in UserIds : get_user(id)
    \/ \E e \in Emails : get_user_by_email(e)
    \/ \E id \in UserIds, p \in EmailPatches : update_user(id, p)
    \/ \E id \in UserIds : delete_user(id)
    \/ create_post("Post 1", "Content 1", 1, NoKw)
    \/ \E id \in PostIds : get_post(id)
    \/ \E id \in PostIds, p \in TitlePatches : update_post(id, p)
    \/ \E id \in PostIds : delete_post(id)
    \/ /\ seq.comments <= MaxLookupComments
       /\ create_comment("Comment 1", 1, 1, NULL)
    \/ \E id \in CommentIds : get_comment(id)
    \/ \E id \in CommentIds, c \in Contents : update_comment(id, c)
    \/ \E id \in CommentIds : delete_comment(id)
    \/ /\ seq.tags <= MaxLookupTags
       /\ create_tag("Python", NoKw)
    \/ \E id \in TagIds : get_tag(id)
    \/ \E n \in TagNames : get_tag_by_name(n)

SpecLookup == Init /\ [][NextLookup]_vars

---------------------------------------------------------------------------
(* SpecTags: posts, tags and their association.                            *)

NextTags ==
    \/ get_session
    \/ \E a \in Accounts : create_user(a[1], a[2], Password)
    \/ \E id \in UserIds : delete_user(id)
    \/ \E a \in UserIds : create_post("Post 1", "Content 1", a, NoKw)
    \/ \E id \in PostIds : delete_post(id)
    \/ \E n \in TagNames : create_tag(n, NoKw)
    \/ \E p \in PostIds, t \in TagIds : add_tag_to_post(p, t)

SpecTags == Init /\ [][NextTags]_vars
---------------------------------------------------------------------------
(* SpecRefs: every call that writes a row or an association, on a store of *)
(* users, posts, comments and a tag.                                       *)

MaxRefComments == 2
MaxRefTags == 1

NextRefs ==
    \/ get_session
    \/ \E a \in Accounts : create_user(a[1], a[2], Password)
    \/ \E id \in UserIds : delete_user(id)
    \/ \E a \in UserIds : create_post("Post 1", "Content 1", a, NoKw)
    \/ \E id \in PostIds, p \in AuthorPatches : update_post(id, p)
    \/ \E id \in PostIds : delete_post(id)
    \/ /\ seq.comments <= MaxRefComments
       /\ \E a \in UserIds, p \in PostIds, par \in CommentIds \cup {NULL} :
              create_comment("Comment 1", a, p, par)
    \/ \E id \in CommentIds : delete_comment(id)
    \/ /\ seq.tags <= MaxRefTags
       /\ create_tag("Python", NoKw)
    \/ \E p \in PostIds, t \in TagIds : add_tag_to_post(p, t)

SpecRefs == Init /\ [][NextRefs]_vars

---------------------------------------------------------------------------
(* SpecDefault: users, posts and comments on the default database URL.     *)

MaxDefaultComments == 2

NextDefault ==
    \/ get_session
    \/ \E a \in Accounts : create_user(a[1], a[2], Password)
    \/ \E id \in UserIds : delete_user(id)
    \/ \E a \in UserIds : create_post("Post 1", "Content 1", a, NoKw)
    \/ \E id \in PostIds : delete_post(id)
    \/ /\ Cardinality(DOMAIN comments) < MaxDefaultComments
       /\ \E a \in UserIds, p \in PostIds, par \in CommentIds \cup {NULL} :
              create_comment("Comment 1", a, p, par)
    \/ \E id \in CommentIds : delete_comment(id)

SpecDefault == InitDefault /\ [][NextDefault]_vars
---------------------------------------------------------------------------
(* SpecAssoc: the association of posts and tags from both sides, through   *)
(* attaching and deleting.                                                 *)

NextAssoc ==
    \/ get_session
    \/ \E a \in Accounts : create_user(a[1], a[2], Password)
    \/ \E id \in UserIds : delete_user(id)
    \/ \E a \in UserIds : create_post("Post 1", "Content 1", a, NoKw)
    \/ \E id \in PostIds : delete_post(id)
    \/ \E n \in TagNames : create_tag(n, NoKw)
    \/ \E p \in PostIds, t \in TagIds : add_tag_to_post(p, t)
    \/ \E t \in TagIds : get_tag(t)
    \/ \E t \in TagIds : get_posts_by_tag(t)

SpecAssoc == Init /\ [][NextAssoc]_vars

---------------------------------------------------------------------------
(* SpecReplies: comment trees on the posts of one user, and the two        *)
(* listings of comments.                                                   *)

MaxReplyUsers == 1

NextReplies ==
    \/ get_session
    \/ /\ seq.users <= MaxReplyUsers
       /\ \E a \in Accounts : create_user(a[1], a[2], Password)
    \/ create_post("Post 1", "Content 1", 1, NoKw)
    \/ \E p \in PostIds, par \in CommentIds \cup {NULL} :
           create_comment("Comment 1", 1, p, par)
    \/ \E id \in CommentIds : delete_comment(id)
    \/ \E p \in PostIds : get_post_comments(p)
    \/ \E c \in CommentIds : get_comment_replies(c)

SpecReplies == Init /\ [][NextReplies]_vars

---------------------------------------------------------------------------
(* SpecPages: the two paginated listings, on a database that already holds *)
(* one account and any number of its posts up to MaxPagePosts, all stored  *)
(* by create_user and create_post and never touched since.                 *)

MaxPagePosts == 11
MaxSkip == 2

InitPages ==
    /\ now = 1
    /\ users = (1 :> UserRow(1, "john_doe", "john@example.com", Password))
    /\ \E n \in 0..MaxPagePosts :
          /\ posts = [i \in 1..n |->
                         PostRow(i, "Post 1", "Content 1", 1, NoKw)]
          /\ seq = [users |-> 2, posts |-> n + 1, comments |-> 1, tags |-> 1]
    /\ comments = <<>>
    /\ tags = <<>>
    /\ post_tags = {}
    /\ sess = "active"
    /\ dialect = "postgresql"
    /\ appended = {"users", "posts"}
    /\ scope = NoScope
    /\ fs = EmptyDir
    /\ run = NoRuns
    /\ sd = EmptyDirs
    /\ calls = NoCalls
    /\ ret = Outcome("init", <<>>, "", None, NoRows)

NextPages ==
    \/ get_session
    \/ \E a \in Accounts : create_user(a[1], a[2], Password)
    \/ \E id \in UserIds, p \in EmailPatches : update_user(id, p)
    \/ \E id \in UserIds : delete_user(id)
    \/ \E a \in UserIds : create_post("Post 1", "Content 1", a, NoKw)
    \/ /\ Cardinality(DOMAIN posts) <= MaxPosts
       /\ \E id \in PostIds, p \in TitlePatches : update_post(id, p)
    \/ \E skip \in 0..MaxSkip, limit \in {0, 1, DefaultUserLimit} :
           get_users(skip, limit)
    \/ \E skip \in 0..MaxSkip, limit \in {0, 1, DefaultPostLimit} :
           get_posts(skip, limit)

SpecPages == InitPages /\ [][NextPages]_vars

---------------------------------------------------------------------------
(* SpecCommit: every operation that writes, on rows that are stored, with  *)
(* the clock running.                                                      *)

MaxCommitUsers == 1
MaxCommitPosts == 1
MaxCommitComments == 1
MaxCommitTags == 1

NextCommit ==
    \/ Tick
    \/ get_session
    \/ /\ seq.users <= MaxCommitUsers
       /\ \E a \in Accounts : create_user(a[1], a[2], Password)
    \/ \E id \in DOMAIN users, p \in EmailPatches : update_user(id, p)
    \/ \E id \in DOMAIN users : delete_user(id)
    \/ /\ seq.posts <= MaxCommitPosts
       /\ create_post("Post 1", "Content 1", 1, NoKw)
    \/ \E id \in DOMAIN posts, p \in TitlePatches : update_post(id, p)
    \/ \E id \in DOMAIN posts : delete_post(id)
    \/ /\ seq.comments <= MaxCommitComments
       /\ \E p \in DOMAIN posts : create_comment("Comment 1", 1, p, NULL)
    \/ \E id \in DOMAIN comments, c \in Contents : update_comment(id, c)
    \/ \E id \in DOMAIN comments : delete_comment(id)
    \/ /\ seq.tags <= MaxCommitTags
       /\ \E n \in TagNames : create_tag(n, NoKw)
    \/ \E p \in DOMAIN posts, t \in DOMAIN tags : add_tag_to_post(p, t)

SpecCommit == Init /\ [][NextCommit]_vars

---------------------------------------------------------------------------
(* SpecScope: the life of one session, from the code that obtains it to    *)
(* the code that closes it.                                                *)

\* usage_example.main, line 14: db = next(db_config.get_session()).  The
\* generator is left suspended at its yield, and nothing refers to it.
main_get_session ==
    /\ scope.pc = "start"
    /\ scope' = [pc |-> "try", gen |-> "suspended", closes |-> 0]
    /\ sess' = "active"
    /\ UNCHANGED <<tables, seq, now, dialect, appended, ret, fs, run, beyond>>

\* The interpreter finalizes the unreferenced generator: GeneratorExit is
\* raised at the yield of get_session and its finally clause closes the
\* session.  CPython does so as soon as line 14 has run; an interpreter
\* without reference counts does so at any later time.
generator_close ==
    /\ scope.gen = "suspended"
    /\ scope' = [scope EXCEPT !.gen = "finished", !.closes = @ + 1]
    /\ sess' = "active"
    /\ UNCHANGED <<tables, seq, now, dialect, appended, ret, fs, run, beyond>>

\* usage_example.main, lines 133-134: finally: db.close(), when the body
\* has run to its end or a call in it has raised.
main_finally ==
    /\ scope.pc = "try"
    /\ scope' = [scope EXCEPT !.pc = "done", !.closes = @ + 1]
    /\ sess' = "active"
    /\ UNCHANGED <<tables, seq, now, dialect, appended, ret, fs, run, beyond>>

\* conftest.db_session up to its yield: session = SessionLocal().
db_session_setup ==
    /\ scope.pc = "start"
    /\ scope' = [pc |-> "test", gen |-> "none", closes |-> 0]
    /\ sess' = "active"
    /\ UNCHANGED <<tables, seq, now, dialect, appended, ret, fs, run, beyond>>

\* conftest.db_session after its yield, when the test has passed or failed:
\* session.close().
db_session_teardown ==
    /\ scope.pc = "test"
    /\ scope' = [scope EXCEPT !.pc = "done", !.closes = @ + 1]
    /\ sess' = "active"
    /\ UNCHANGED <<tables, seq, now, dialect, appended, ret, fs, run, beyond>>

\* The holder of the session is between obtaining it and closing it, and
\* no call it made has raised.
InBody == scope.pc \in {"try", "test"} /\ ret.exc = ""

NextScope ==
    \/ main_get_session
    \/ generator_close
    \/ main_finally
    \/ db_session_setup
    \/ db_session_teardown
    \/ InBody /\ \E a \in Accounts : create_user(a[1], a[2], Password)
    \/ InBody /\ \E id \in UserIds : get_user(id)
    \/ InBody /\ \E a \in UserIds : create_post("Post 1", "Content 1", a, NoKw)
    \/ InBody /\ \E id \in PostIds, p \in TitlePatches : update_post(id, p)
    \/ InBody /\ \E n \in TagNames : create_tag(n, NoKw)
    \/ InBody /\ \E p \in PostIds, t \in TagIds : add_tag_to_post(p, t)

SpecScope == Init /\ [][NextScope]_vars

---------------------------------------------------------------------------
(* The schema exporters that shell out to pg_dump: utils/validate_and_dump *)
(* and utils/pg_dump_helper.  Both write schema/schema_postgres_<time>.sql *)
(* and the alias schema/schema_postgres_latest.sql.                        *)

\* subprocess.run(..., timeout=30)
PgDumpTimeout == 30

\* schema_postgres_{timestamp}.sql and schema_postgres_clean_{timestamp}.sql
Dump(t) == <<"schema_postgres", t>>
Clean(t) == <<"schema_postgres_clean", t>>

\* The command lines: validate_and_dump.py with and without
\* --skip-migrations, pg_dump_helper.py with --use-testcontainer, with
\* --use-running and with neither.
Invocations ==
    {<<"validate_and_dump", "migrations">>, <<"validate_and_dump", "direct">>,
     <<"pg_dump_helper", "testcontainer">>, <<"pg_dump_helper", "running">>,
     <<"pg_dump_helper", "default">>}

\* The process ends with the exit code `code`.
Exit(rec, code) == [rec EXCEPT !.pc = "exit", !.code = code]

\* The dump function returns its failure value to pg_dump_helper's main.
ReturnNone(rec) ==
    [rec EXCEPT !.pc = "returned", !.result = "failed",
                !.failed = @ \cup {"dump"}]

start(r, cli, mode) ==
    /\ run[r].pc = "idle"
    /\ run' = [run EXCEPT ![r] =
                  [Idle EXCEPT
                      !.cli = cli, !.mode = mode,
                      !.fn = IF cli = "validate_and_dump" THEN "validate_and_dump"
                             ELSE IF mode = "testcontainer"
                             THEN "dump_with_testcontainer"
                             ELSE "dump_with_running_container",
                      !.pc = IF cli = "pg_dump_helper" /\ mode # "testcontainer"
                             THEN "docker_ps" ELSE "schema"]]
    /\ UNCHANGED <<tables, seq, now, sess, dialect, appended, ret, scope, fs, beyond>>

\* validate_and_dump step 3 (run_alembic_migrations or
\* create_models_directly) and dump_with_testcontainer's create_all; ok
\* tells whether the step worked.  run_alembic_migrations returns True on
\* both paths, so that `if not success:` never takes the branch that calls
\* create_models_directly; an exception of create_all in pg_dump_helper is
\* not caught.
create_schema(r, ok) ==
    LET rec == run[r]
        bad == IF rec.fn = "validate_and_dump" /\ rec.mode = "migrations"
               THEN "migration" ELSE "create"
        rec1 == [rec EXCEPT
                    !.failed = IF ok THEN @ ELSE @ \cup {bad},
                    !.alembic = IF bad = "migration" THEN True ELSE @,
                    !.schema = IF ~ok THEN "none"
                               ELSE IF bad = "migration" THEN "alembic"
                               ELSE "create_all"]
    IN  /\ rec.pc = "schema"
        /\ run' = [run EXCEPT ![r] =
                      IF ok \/ bad = "migration"
                      THEN [rec1 EXCEPT !.pc = "spawn"]
                      ELSE Exit(rec1, 1)]
        /\ UNCHANGED <<tables, seq, now, sess, dialect, appended, ret, scope, fs, beyond>>

\* dump_with_running_container: docker ps, and the test for postgres-dev.
docker_ps(r, out) ==
    LET rec == run[r]
    IN  /\ rec.pc = "docker_ps"
        /\ run' = [run EXCEPT ![r] =
                      IF out = "running" THEN [rec EXCEPT !.pc = "spawn"]
                      ELSE ReturnNone(rec)]
        /\ UNCHANGED <<tables, seq, now, sess, dialect, appended, ret, scope, fs, beyond>>

\* subprocess.run(cmd, ...) starts pg_dump; child is what the process will
\* do: exit with 0, exit with another code, or never exit.  pg_dump_helper
\* has taken its timestamp before this call.
spawn_pg_dump(r, child) ==
    LET rec == run[r]
    IN  /\ rec.pc = "spawn"
        /\ run' = [run EXCEPT ![r] =
                      [rec EXCEPT
                          !.pc = "wait", !.child = child,
                          !.timeout = IF rec.fn = "validate_and_dump"
                                      THEN PgDumpTimeout ELSE NoTimeout,
                          !.stamp = IF rec.fn = "validate_and_dump" THEN @
                                    ELSE now]]
        /\ UNCHANGED <<tables, seq, now, sess, dialect, appended, ret, scope, fs, beyond>>

\* subprocess.run without check=True: a non-zero exit is a result like any
\* other.
child_exits_unchecked(r) ==
    LET rec == run[r]
    IN  /\ rec.pc = "wait"
        /\ rec.child \in {"ok", "nonzero"}
        /\ run' = [run EXCEPT ![r] =
                      [rec EXCEPT !.pc = "write",
                                  !.result = IF rec.fn = "validate_and_dump"
                                             THEN "ok" ELSE @]]
        /\ UNCHANGED <<tables, seq, now, sess, dialect, appended, ret, scope, fs, beyond>>

\* pg_dump exits: subprocess.run returns, or raises CalledProcessError.
child_exits(r) ==
    LET rec == run[r]
    IN  /\ rec.pc = "wait"
        /\ rec.child \in {"ok", "nonzero"}
        /\ run' = [run EXCEPT ![r] =
                      IF rec.child = "ok"
                      THEN [rec EXCEPT !.pc = "write",
                                       !.result = IF rec.fn = "validate_and_dump"
                                                  THEN "ok" ELSE @]
                      ELSE IF rec.fn = "validate_and_dump"
                      THEN Exit(ReturnNone(rec), 1)
                      ELSE ReturnNone(rec)]
        /\ UNCHANGED <<tables, seq, now, sess, dialect, appended, ret, scope, fs, beyond>>

\* The timeout of subprocess.run passes: TimeoutExpired, which only
\* run_pg_dump catches.
timeout_expires(r) ==
    LET rec == run[r]
    IN  /\ rec.pc = "wait"
        /\ rec.child = "hang"
        /\ rec.timeout # NoTimeout
        /\ run' = [run EXCEPT ![r] = Exit(ReturnNone(rec), 1)]
        /\ UNCHANGED <<tables, seq, now, sess, dialect, appended, ret, scope, fs, beyond>>

\* open(output_file, 'w') and the writes; save_schema_dump takes its
\* timestamp here.
write_file(r) ==
    LET rec == run[r]
        t == IF rec.fn = "validate_and_dump" THEN now ELSE rec.stamp
    IN  /\ rec.pc = "write"
        /\ fs' = [fs EXCEPT !.files = @ \cup {Dump(t)}]
        /\ run' = [run EXCEPT ![r] =
                      [rec EXCEPT !.pc = "link_exists", !.stamp = t,
                                  !.written = @ \cup {Dump(t)}]]
        /\ UNCHANGED <<tables, seq, now, sess, dialect, appended, ret, scope, beyond>>

\* if latest_link.exists() or latest_link.is_symlink():
link_exists(r) ==
    LET rec == run[r]
    IN  /\ rec.pc = "link_exists"
        /\ run' = [run EXCEPT ![r] =
                      [rec EXCEPT !.pc = IF fs.latest # NoLink THEN "unlink"
                                         ELSE "symlink"]]
        /\ UNCHANGED <<tables, seq, now, sess, dialect, appended, ret, scope, fs, beyond>>

\* latest_link.unlink(): FileNotFoundError, which nothing catches, when the
\* alias is gone by now.
link_unlink(r) ==
    LET rec == run[r]
    IN  /\ rec.pc = "unlink"
        /\ IF fs.latest = NoLink
           THEN /\ run' = [run EXCEPT ![r] =
                              Exit([rec EXCEPT !.failed = @ \cup {"link"}], 1)]
                /\ UNCHANGED fs
           ELSE /\ fs' = [fs EXCEPT !.latest = NoLink]
                /\ run' = [run EXCEPT ![r] = [rec EXCEPT !.pc = "symlink"]]
        /\ UNCHANGED <<tables, seq, now, sess, dialect, appended, ret, scope, beyond>>

\* latest_link.symlink_to(output_file.name): FileExistsError, which nothing
\* catches, when the alias exists by now.  dump_with_running_container
\* returns after it.
link_symlink(r) ==
    LET rec == run[r]
    IN  /\ rec.pc = "symlink"
        /\ IF fs.latest # NoLink
           THEN /\ run' = [run EXCEPT ![r] =
                              Exit([rec EXCEPT !.failed = @ \cup {"link"}], 1)]
                /\ UNCHANGED fs
           ELSE /\ fs' = [fs EXCEPT !.latest = Dump(rec.stamp)]
                /\ run' = [run EXCEPT ![r] =
                              IF rec.fn = "dump_with_running_container"
                              THEN [rec EXCEPT !.pc = "returned",
                                               !.result = "ok"]
                              ELSE [rec EXCEPT !.pc = "clean"]]
        /\ UNCHANGED <<tables, seq, now, sess, dialect, appended, ret, scope, beyond>>

\* The clean version of the dump; validate_and_dump then counts the
\* statements of the dump and returns 0.
write_clean(r) ==
    LET rec == run[r]
        rec1 == [rec EXCEPT !.written = @ \cup {Clean(rec.stamp)}]
    IN  /\ rec.pc = "clean"
        /\ fs' = [fs EXCEPT !.files = @ \cup {Clean(rec.stamp)}]
        /\ run' = [run EXCEPT ![r] =
                      IF rec.fn = "validate_and_dump" THEN Exit(rec1, 0)
                      ELSE [rec1 EXCEPT !.pc = "returned", !.result = "ok"]]
        /\ UNCHANGED <<tables, seq, now, sess, dialect, appended, ret, scope, beyond>>

\* pg_dump_helper's main after a dump function has returned: without an
\* option it calls dump_with_testcontainer when dump_with_running_container
\* returned None; the script then ends, and the exit code is 0.
pg_dump_helper_main(r) ==
    LET rec == run[r]
    IN  /\ rec.pc = "returned"
        /\ run' = [run EXCEPT ![r] =
                      IF /\ rec.mode = "default"
                         /\ rec.fn = "dump_with_running_container"
                         /\ rec.result = "failed"
                      THEN [rec EXCEPT !.fn = "dump_with_testcontainer",
                                       !.pc = "schema", !.result = "none",
                                       !.child = "none", !.stamp = 0]
                      ELSE Exit(rec, 0)]
        /\ UNCHANGED <<tables, seq, now, sess, dialect, appended, ret, scope, fs, beyond>>

\* One step of the exporter r.
RunStep(r) ==
    \/ \E i \in Invocations : start(r, i[1], i[2])
    \/ \E ok \in BOOLEAN : create_schema(r, ok)
    \/ \E out \in {"running", "absent", "nonzero"} : docker_ps(r, out)
    \/ \E child \in {"ok", "nonzero", "hang"} : spawn_pg_dump(r, child)
    \/ child_exits(r)
    \/ timeout_expires(r)
    \/ write_file(r)
    \/ link_exists(r)
    \/ link_unlink(r)
    \/ link_symlink(r)
    \/ write_clean(r)
    \/ pg_dump_helper_main(r)

NextDump ==
    \/ Tick
    \/ \E r \in Runs, i \in Invocations : start(r, i[1], i[2])
    \/ \E r \in Runs, ok \in BOOLEAN : create_schema(r, ok)
    \/ \E r \in Runs, out \in {"running", "absent", "nonzero"} :
           docker_ps(r, out)
    \/ \E r \in Runs, child \in {"ok", "nonzero", "hang"} :
           spawn_pg_dump(r, child)
    \/ \E r \in Runs : child_exits(r)
    \/ \E r \in Runs : timeout_expires(r)
    \/ \E r \in Runs : write_file(r)
    \/ \E r \in Runs : link_exists(r)
    \/ \E r \in Runs : link_unlink(r)
    \/ \E r \in Runs : link_symlink(r)
    \/ \E r \in Runs : write_clean(r)
    \/ \E r \in Runs : pg_dump_helper_main(r)

SpecDump == Init /\ [][NextDump]_vars

\* Every exporter that can take a step takes one in the end: each is a
\* process of its own, and the operating system runs it.
SpecDumpFair == SpecDump /\ \A r \in Runs : WF_vars(RunStep(r))

---------------------------------------------------------------------------
(* Claims of SpecLookup.                                                   *)

\* C1: for User, Post and Comment, delete(id) on a stored id returns True
\* and removes the row; an id that was stored and deleted is never stored
\* again, and every later get(id) on it returns None.
DeleteThenGetAbsent ==
    [][/\ \A id \in UserIds :
            /\ (sess = "active" /\ id \in DOMAIN users /\ delete_user(id))
                   => (ret'.val = True /\ UserById(users', id) = None)
            /\ (id < seq.users /\ id \notin DOMAIN users)
                   => /\ id \notin DOMAIN users'
                      /\ (sess = "active" /\ get_user(id))
                             => (ret'.exc = "" /\ ret'.val = None)
       /\ \A id \in PostIds :
            /\ (sess = "active" /\ id \in DOMAIN posts /\ delete_post(id))
                   => (ret'.val = True /\ PostById(posts', id) = None)
            /\ (id < seq.posts /\ id \notin DOMAIN posts)
                   => /\ id \notin DOMAIN posts'
                      /\ (sess = "active" /\ get_post(id))
                             => (ret'.exc = "" /\ ret'.val = None)
       /\ \A id \in CommentIds :
            /\ (sess = "active" /\ id \in DOMAIN comments /\ delete_comment(id))
                   => (ret'.val = True /\ CommentById(comments', id) = None)
            /\ (id < seq.comments /\ id \notin DOMAIN comments)
                   => /\ id \notin DOMAIN comments'
                      /\ (sess = "active" /\ get_comment(id))
                             => (ret'.exc = "" /\ ret'.val = None)
      ]_vars

\* A get_comment that returned None for a deleted comment, after the user
\* and the post were deleted too and a second user was created.
DeletedThenGot ==
    /\ ret.op = "get_comment" /\ ret.exc = "" /\ ret.val = None
    /\ ret.args.comment_id < seq.comments
    /\ 1 < seq.users /\ 1 \notin DOMAIN users /\ 2 \in DOMAIN users
    /\ 1 < seq.posts /\ 1 \notin DOMAIN posts

\* C2: not found is a return value.  For an id or a natural key that is not
\* stored, get and get_by return None, update returns None and delete returns
\* False, none of them raises, and every table is left as it was.
NotFoundIsReturned ==
    [][sess = "active" =>
        /\ ret'.op \in {"get_user", "update_user", "delete_user"} =>
            \A id \in UserIds \ DOMAIN users :
                /\ get_user(id)
                     => (ret'.exc = "" /\ ret'.val = None /\ UNCHANGED tables)
                /\ \A p \in EmailPatches : update_user(id, p)
                     => (ret'.exc = "" /\ ret'.val = None /\ UNCHANGED tables)
                /\ delete_user(id)
                     => (ret'.exc = "" /\ ret'.val = False /\ UNCHANGED tables)
        /\ ret'.op = "get_user_by_email" =>
            \A e \in Emails :
                (\A u \in DOMAIN users : users[u].email # e) /\ get_user_by_email(e)
                    => (ret'.exc = "" /\ ret'.val = None /\ UNCHANGED tables)
        /\ ret'.op \in {"get_post", "update_post", "delete_post"} =>
            \A id \in PostIds \ DOMAIN posts :
                /\ get_post(id)
                     => (ret'.exc = "" /\ ret'.val = None /\ UNCHANGED tables)
                /\ \A p \in TitlePatches : update_post(id, p)
                     => (ret'.exc = "" /\ ret'.val = None /\ UNCHANGED tables)
                /\ delete_post(id)
                     => (ret'.exc = "" /\ ret'.val = False /\ UNCHANGED tables)
        /\ ret'.op \in {"get_comment", "update_comment", "delete_comment"} =>
            \A id \in CommentIds \ DOMAIN comments :
                /\ get_comment(id)
                     => (ret'.exc = "" /\ ret'.val = None /\ UNCHANGED tables)
                /\ \A c \in Contents : update_comment(id, c)
                     => (ret'.exc = "" /\ ret'.val = None /\ UNCHANGED tables)
                /\ delete_comment(id)
                     => (ret'.exc = "" /\ ret'.val = False /\ UNCHANGED tables)
        /\ ret'.op = "get_tag" =>
            \A id \in TagIds \ DOMAIN tags :
                get_tag(id)
                    => (ret'.exc = "" /\ ret'.val = None /\ UNCHANGED tables)
        /\ ret'.op = "get_tag_by_name" =>
            \A n \in TagNames :
                (\A t \in DOMAIN tags : tags[t].name # n) /\ get_tag_by_name(n)
                    => (ret'.exc = "" /\ ret'.val = None /\ UNCHANGED tables)
      ]_vars

\* A delete_post that returned False for an id that is not stored, with a
\* user, a comment-free post and a tag stored.
DeleteOfMissingReturnedFalse ==
    /\ ret.op = "delete_post" /\ ret.exc = "" /\ ret.val = False
    /\ ret.args.post_id \notin DOMAIN posts
    /\ users # <<>> /\ posts # <<>> /\ tags # <<>>
---------------------------------------------------------------------------
(* Claims of Spec.                                                         *)

\* C3: delete_user on a stored user returns True and removes the user, every
\* post the user owns, every comment on those posts and every comment the
\* user wrote on other users' posts: a get on each of those ids is absent.
DeleteUserCascades ==
    [][(sess = "active" /\ ret'.op = "delete_user") =>
        \A id \in DOMAIN users :
            delete_user(id) =>
                /\ ret'.val = True
                /\ UserById(users', id) = None
                /\ \A p \in DOMAIN posts :
                       posts[p].author_id = id => PostById(posts', p) = None
                /\ \A c \in DOMAIN comments :
                       (\/ comments[c].author_id = id
                        \/ posts[comments[c].post_id].author_id = id)
                           => CommentById(comments', c) = None
      ]_vars

\* A delete_user that removed a post of the user, a comment another user
\* wrote on it, and a comment the user wrote on another user's post.
UserDeletedWithPostsAndComments ==
    /\ ret.op = "delete_user" /\ ret.exc = "" /\ ret.val = True
    /\ ret.deleted.posts # {}
    /\ \E c, d \in DOMAIN ret.deleted.comments :
           /\ ret.deleted.comments[c].author_id # ret.args.user_id
           /\ ret.deleted.comments[c].post_id \in ret.deleted.posts
           /\ ret.deleted.comments[d].author_id = ret.args.user_id
           /\ ret.deleted.comments[d].post_id \notin ret.deleted.posts
    /\ \A c \in DOMAIN ret.deleted.comments : c \notin DOMAIN comments
    /\ \A p \in ret.deleted.posts : p \notin DOMAIN posts

\* C4: delete_post on a stored post returns True and removes every comment
\* whose post_id is that post, replies and replies to replies included: a
\* get_comment on each of them is absent.
DeletePostRemovesItsComments ==
    [][(sess = "active" /\ ret'.op = "delete_post") =>
        \A id \in DOMAIN posts :
            delete_post(id) =>
                /\ ret'.val = True
                /\ PostById(posts', id) = None
                /\ \A c \in DOMAIN comments :
                       comments[c].post_id = id => CommentById(comments', c) = None
      ]_vars

\* A delete_post that removed a comment, a reply to it and a reply to the
\* reply.
PostDeletedWithReplyChain ==
    /\ ret.op = "delete_post" /\ ret.exc = "" /\ ret.val = True
    /\ \E a, b, c \in DOMAIN ret.deleted.comments :
           /\ ret.deleted.comments[a].parent_id = NULL
           /\ ret.deleted.comments[b].parent_id = a
           /\ ret.deleted.comments[c].parent_id = b
    /\ \A c \in DOMAIN ret.deleted.comments :
           /\ ret.deleted.comments[c].post_id \in ret.deleted.posts
           /\ c \notin DOMAIN comments
---------------------------------------------------------------------------
(* Claims of SpecRefs and SpecDefault.                                     *)

\* C5: referential integrity.  In every reachable state every post's
\* author_id names a stored user, every comment's author_id names a stored
\* user and its post_id a stored post, and every parent_id that is not NULL
\* names a stored comment.  It holds in SpecRefs, where the engine checks
\* foreign keys, and fails in SpecDefault, where it does not.
ReferentialIntegrity ==
    /\ \A p \in DOMAIN posts : posts[p].author_id \in DOMAIN users
    /\ \A c \in DOMAIN comments :
           /\ comments[c].author_id \in DOMAIN users
           /\ comments[c].post_id \in DOMAIN posts
           /\ comments[c].parent_id # NULL
                  => comments[c].parent_id \in DOMAIN comments

---------------------------------------------------------------------------
(* Claims of SpecKeys.                                                     *)

\* C6: uniqueness.  In every reachable state no two users share a username
\* or an email, no two tags share a name or a slug that is not NULL, and no
\* two posts share a slug that is not NULL.
UniqueKeys ==
    /\ \A i, j \in DOMAIN users :
           i # j => /\ users[i].username # users[j].username
                    /\ users[i].email # users[j].email
    /\ \A i, j \in DOMAIN tags :
           i # j => /\ tags[i].name # tags[j].name
                    /\ tags[i].slug = NullStr \/ tags[i].slug # tags[j].slug
    /\ \A i, j \in DOMAIN posts :
           i # j => posts[i].slug = NullStr \/ posts[i].slug # posts[j].slug

\* An update_user that tried to overwrite the email of one of two stored
\* users with the email of the other, and was rejected.
UpdateToTakenEmailRejected ==
    /\ ret.op = "update_user" /\ ret.exc = "IntegrityError"
    /\ "email" \in ret.args.kwargs.set
    /\ \E i, j \in DOMAIN users :
           /\ i # j
           /\ i = ret.args.user_id
           /\ users[j].email = ret.args.kwargs.email

\* C7: a create_user with the email of a stored user raises IntegrityError
\* and stores nothing; the first user stays stored, and every later get_user
\* or get_user_by_email that returns for its id or email returns that user.
DuplicateEmailRejected ==
    [][/\ ret'.op = "create_user" =>
            \A u \in Usernames, e \in Emails :
                (/\ sess = "active"
                 /\ \E i \in DOMAIN users : users[i].email = e
                 /\ create_user(u, e, Password))
                => /\ ret'.exc = "IntegrityError"
                   /\ users' = users
                   /\ UserByEmail(users', e) = UserByEmail(users, e)
                   /\ UserByEmail(users', e) # None
       /\ (sess = "active" /\ ret'.op = "get_user_by_email") =>
            \A e \in Emails :
                ((\E i \in DOMAIN users : users[i].email = e) /\ get_user_by_email(e))
                => (ret'.exc = "" /\ ret'.val # None /\ ret'.val.email = e
                    /\ ret'.val = users[ret'.val.id])
       /\ (sess = "active" /\ ret'.op = "get_user") =>
            \A id \in DOMAIN users :
                get_user(id) => (ret'.exc = "" /\ ret'.val = users[id])
      ]_vars

\* A create_user that was rejected for its email alone: another username,
\* the email of the one stored user.
SecondUserWithSameEmail ==
    /\ ret.op = "create_user" /\ ret.exc = "IntegrityError"
    /\ DOMAIN users = {1}
    /\ users[1].email = ret.args.email
    /\ users[1].username # ret.args.username

---------------------------------------------------------------------------
(* Claims of SpecFields.                                                   *)

\* C8: an update of a stored row sets exactly the named fields to the given
\* values; every other field of the row is unchanged except updated_at,
\* which does not decrease; every other row and table is unchanged.
UpdateChangesNamedFields ==
    [][(sess = "active" /\ ret'.exc = "") =>
        /\ ret'.op = "update_user" =>
            LET id == ret'.args.user_id
                p == ret'.args.kwargs
            IN  (id \in DOMAIN users /\ update_user(id, p)) =>
                    /\ DOMAIN users' = DOMAIN users
                    /\ \A f \in p.set : users'[id][f] = p[f]
                    /\ \A f \in DOMAIN users[id] \ (p.set \cup {"updated_at"}) :
                           users'[id][f] = users[id][f]
                    /\ users'[id].updated_at >= users[id].updated_at
                    /\ \A j \in DOMAIN users \ {id} : users'[j] = users[j]
                    /\ UNCHANGED <<posts, comments, tags, post_tags>>
        /\ ret'.op = "update_post" =>
            LET id == ret'.args.post_id
                p == ret'.args.kwargs
            IN  (id \in DOMAIN posts /\ update_post(id, p)) =>
                    /\ DOMAIN posts' = DOMAIN posts
                    /\ \A f \in p.set : posts'[id][f] = p[f]
                    /\ \A f \in DOMAIN posts[id] \ (p.set \cup {"updated_at"}) :
                           posts'[id][f] = posts[id][f]
                    /\ posts'[id].updated_at >= posts[id].updated_at
                    /\ \A j \in DOMAIN posts \ {id} : posts'[j] = posts[j]
                    /\ UNCHANGED <<users, comments, tags, post_tags>>
        /\ ret'.op = "update_comment" =>
            LET id == ret'.args.comment_id
                c == ret'.args.content
            IN  (id \in DOMAIN comments /\ update_comment(id, c)) =>
                    /\ DOMAIN comments' = DOMAIN comments
                    /\ comments'[id].content = c
                    /\ \A f \in DOMAIN comments[id] \ {"content", "updated_at"} :
                           comments'[id][f] = comments[id][f]
                    /\ comments'[id].updated_at >= comments[id].updated_at
                    /\ \A j \in DOMAIN comments \ {id} : comments'[j] = comments[j]
                    /\ UNCHANGED <<users, posts, tags, post_tags>>
      ]_vars

\* An update_post of one of two stored posts that set its title, after the
\* clock had advanced.
PostTitleUpdated ==
    /\ ret.op = "update_post" /\ ret.exc = "" /\ ret.val # None
    /\ ret.args.kwargs.set = {"title"}
    /\ DOMAIN posts = {1, 2}
    /\ posts[ret.args.post_id].title = "Updated Title"
    /\ posts[ret.args.post_id].is_published
    /\ posts[ret.args.post_id].updated_at > posts[ret.args.post_id].created_at
    /\ \E j \in DOMAIN posts : posts[j].title = "Post 1"

\* C9: create returns the stored row: its id and timestamps are not NULL,
\* its supplied fields are the arguments, and the fields not supplied carry
\* the declared defaults; get(id) of a stored id returns the stored row.
CreateThenGet ==
    [][(sess = "active" /\ ret'.exc = "") =>
        /\ ret'.op = "create_user" =>
            \A a \in Accounts :
                create_user(a[1], a[2], Password) =>
                    LET r == ret'.val
                    IN  /\ r.id # NULL /\ r.id \notin DOMAIN users
                        /\ UserById(users', r.id) = r
                        /\ r.username = a[1] /\ r.email = a[2]
                        /\ r.hashed_password = Password
                        /\ r.created_at # NULL /\ r.updated_at # NULL
                        /\ r.is_active = TRUE /\ r.is_superuser = FALSE
        /\ ret'.op = "create_post" =>
            (create_post("Post 1", "Content 1", 1, NoKw) =>
                LET r == ret'.val
                IN  /\ r.id # NULL /\ r.id \notin DOMAIN posts
                    /\ PostById(posts', r.id) = r
                    /\ r.title = "Post 1" /\ r.content = "Content 1"
                    /\ r.author_id = 1
                    /\ r.created_at # NULL /\ r.updated_at # NULL
                    /\ r.is_published = FALSE /\ r.view_count = 0)
        /\ ret'.op = "create_comment" =>
            (create_comment("Comment 1", 1, 1, NULL) =>
                LET r == ret'.val
                IN  /\ r.id # NULL /\ r.id \notin DOMAIN comments
                    /\ CommentById(comments', r.id) = r
                    /\ r.content = "Comment 1"
                    /\ r.author_id = 1 /\ r.post_id = 1 /\ r.parent_id = NULL
                    /\ r.created_at # NULL /\ r.updated_at # NULL
                    /\ r.is_approved = TRUE)
        /\ ret'.op = "get_user" =>
            \A id \in DOMAIN users : get_user(id) => ret'.val = users[id]
        /\ ret'.op = "get_post" =>
            \A id \in DOMAIN posts : get_post(id) => ret'.val = posts[id]
        /\ ret'.op = "get_comment" =>
            \A id \in DOMAIN comments : get_comment(id) => ret'.val = comments[id]
      ]_vars

\* A get_post that returned a post as create_post stored it at time 2.
GotPostAsCreated ==
    /\ ret.op = "get_post" /\ ret.exc = "" /\ ret.val # None
    /\ ret.val.title = "Post 1" /\ ret.val.author_id = 1
    /\ ret.val.is_published = FALSE /\ ret.val.view_count = 0
    /\ ret.val.created_at = MaxTime /\ ret.val.updated_at = MaxTime
    /\ ret.val.id = MaxPosts

---------------------------------------------------------------------------
(* Claims of SpecTags.                                                     *)

\* C10: add_tag_to_post returns None and changes no table when the post or
\* the tag is not stored; when both are stored it returns the post, and the
\* tag is in the post's tag list.
AddTagNeedsBoth ==
    [][(sess = "active" /\ ret'.op = "add_tag_to_post") =>
        \A p \in PostIds, t \in TagIds :
            add_tag_to_post(p, t) =>
                /\ ret'.exc = ""
                /\ IF p \in DOMAIN posts /\ t \in DOMAIN tags
                   THEN /\ ret'.val = posts[p]
                        /\ t \in PostTagList(post_tags', p)
                        /\ post_tags \subseteq post_tags'
                        /\ UNCHANGED <<users, posts, comments, tags>>
                   ELSE /\ ret'.val = None
                        /\ UNCHANGED tables
      ]_vars

\* An add_tag_to_post that returned None for a stored post and a tag that
\* is not stored, after an earlier one attached a stored tag to that post.
TagMissingAfterTagAdded ==
    /\ ret.op = "add_tag_to_post" /\ ret.exc = "" /\ ret.val = None
    /\ ret.args.post_id \in DOMAIN posts
    /\ ret.args.tag_id \notin DOMAIN tags
    /\ PostTagList(post_tags, ret.args.post_id) # {}
---------------------------------------------------------------------------
(* Claims of SpecAssoc. *)

\* C11: the association of posts and tags reads the same from both sides:
\* whenever get_posts_by_tag(t) returns, a post is in its result if and only
\* if t is in that post's tag list, the result holds stored posts as they are
\* stored, and no association row is left for a post or tag that is gone.
TagListsAgree ==
    [][(sess = "active" /\ ret'.op = "get_posts_by_tag") =>
          LET t == ret'.args.tag_id
          IN  get_posts_by_tag(t) =>
                 /\ ret'.exc = ""
                 /\ \A pt \in post_tags :
                       pt[1] \in DOMAIN posts /\ pt[2] \in DOMAIN tags
                 /\ \A p \in PostIds :
                       (t \in PostTagList(post_tags, p))
                           <=> (\E r \in ret'.val : r.id = p)
                 /\ \A r \in ret'.val :
                       r.id \in DOMAIN posts /\ r = posts[r.id]]_vars

\* get_posts_by_tag has returned two posts, and the tag is in the tag list
\* of both.
TagReturnedTwoPosts ==
    /\ ret.op = "get_posts_by_tag"
    /\ ret.exc = ""
    /\ Cardinality(ret.val) = 2
    /\ \A r \in ret.val : ret.args.tag_id \in PostTagList(post_tags, r.id)
    /\ Cardinality(DOMAIN tags) = 2

\* C12: deleting a user or a post deletes no tag: when delete_user or
\* delete_post returns True, the tags table is as it was, every tag is still
\* retrievable by its id, the association rows of the deleted posts are gone
\* and the others are kept, and the posts of a tag no longer include a
\* deleted post.
DeleteKeepsTags ==
    [][(sess = "active" /\ ret'.op \in {"delete_user", "delete_post"}
        /\ ret'.val = True) =>
          LET P == ret'.deleted.posts
              done == IF ret'.op = "delete_user"
                      THEN delete_user(ret'.args.user_id)
                      ELSE delete_post(ret'.args.post_id)
          IN  done =>
                 /\ tags' = tags
                 /\ \A t \in DOMAIN tags : TagById(tags', t) = tags[t]
                 /\ post_tags' = {pt \in post_tags : pt[1] \notin P}
                 /\ \A t \in DOMAIN tags :
                       \A r \in PostsByTag(post_tags', posts', t) :
                           r.id \notin P]_vars

\* delete_user has removed a user with a tagged post; the tag is stored.
UserDeletedWithTaggedPost ==
    /\ ret.op = "delete_user"
    /\ ret.val = True
    /\ ret.deleted.posts # {}
    /\ ret.deleted.post_tags # {}
    /\ \A pt \in ret.deleted.post_tags :
          pt[2] \in DOMAIN tags /\ pt \notin post_tags

---------------------------------------------------------------------------
(* Claims of SpecReplies. *)

---------------------------------------------------------------------------
(* Claims of SpecPages. *)

\* C14, as stated: get_users and get_posts with skip = 0 and limit = k
\* return exactly min(k, total) items, and on a table that has only been
\* appended to, a call that passes skip = k and leaves limit at its default
\* returns the rows in insertion order with the first k omitted.
PagesOmitFirstOnly ==
    [][(sess = "active" /\ ret'.op \in {"get_users", "get_posts"}) =>
          LET k == ret'.args.skip
              l == ret'.args.limit
              name == IF ret'.op = "get_users" THEN "users" ELSE "posts"
              tbl == IF ret'.op = "get_users" THEN users ELSE posts
              default == IF ret'.op = "get_users" THEN DefaultUserLimit
                         ELSE DefaultPostLimit
              all == ById(tbl, DOMAIN tbl)
              done == IF ret'.op = "get_users" THEN get_users(k, l)
                      ELSE get_posts(k, l)
          IN  done =>
                 /\ ret'.exc = ""
                 /\ k = 0 => Len(ret'.val) = Min(l, Len(all))
                 /\ (name \in appended /\ l = default) =>
                       ret'.val = SubSeq(all, k + 1, Len(all))]_vars

\* C14, amended: get_users and get_posts with skip = 0 and limit = k return
\* exactly min(k, total) items, each a stored row and none twice; on a table
\* that has only been appended to, a call with skip = k returns the rows in
\* insertion order with the first k omitted and cut off after `limit` rows,
\* where limit is 100 for get_users and 10 for get_posts when the caller
\* leaves it out.
PagesOfListings ==
    [][(sess = "active" /\ ret'.op \in {"get_users", "get_posts"}) =>
          LET k == ret'.args.skip
              l == ret'.args.limit
              name == IF ret'.op = "get_users" THEN "users" ELSE "posts"
              tbl == IF ret'.op = "get_users" THEN users ELSE posts
              all == ById(tbl, DOMAIN tbl)
              done == IF ret'.op = "get_users" THEN get_users(k, l)
                      ELSE get_posts(k, l)
          IN  done =>
                 /\ ret'.exc = ""
                 /\ k = 0 => Len(ret'.val) = Min(l, Len(all))
                 /\ \A i \in 1..Len(ret'.val) :
                       /\ ret'.val[i].id \in DOMAIN tbl
                       /\ ret'.val[i] = tbl[ret'.val[i].id]
                       /\ \A j \in 1..Len(ret'.val) :
                             i # j => ret'.val[i].id # ret'.val[j].id
                 /\ name \in appended =>
                       /\ Len(ret'.val) =
                             IF k >= Len(all) THEN 0 ELSE Min(l, Len(all) - k)
                       /\ \A i \in 1..Len(ret'.val) :
                             ret'.val[i] = all[k + i]]_vars

\* get_posts(skip=1) with the default limit on eleven posts that were only
\* inserted has returned the ten posts with the ids 2 to 11.
SecondToEleventhPost ==
    /\ ret.op = "get_posts"
    /\ ret.exc = ""
    /\ ret.args = [skip |-> 1, limit |-> DefaultPostLimit]
    /\ "posts" \in appended
    /\ DOMAIN posts = 1..11
    /\ Len(ret.val) = 10
    /\ \A i \in 1..10 : ret.val[i] = posts[i + 1]
---------------------------------------------------------------------------
(* Claims of SpecCommit. *)

\* C15: every operation that writes has committed when it returns: after a
\* create_* that returned, the store holds the returned row under a new id,
\* with the defaults of that commit; after an update_* of a stored id, the
\* store holds the returned row under that id; after a delete_* of a stored
\* id, the store no longer holds that id; after add_tag_to_post with both
\* rows stored, the store holds the association.  The store is what any
\* other unit of work reads.
ReturnsAfterCommit ==
    [][(sess = "active" /\ ret'.exc = "") =>
          LET a == ret'.args
              v == ret'.val
          IN  /\ (ret'.op = "create_user"
                  /\ create_user(a.username, a.email, a.password)) =>
                    /\ v.id \notin DOMAIN users
                    /\ UserById(users', v.id) = v
                    /\ v.created_at = now
              /\ (ret'.op = "create_post"
                  /\ create_post(a.title, a.content, a.author_id, a.kwargs)) =>
                    /\ v.id \notin DOMAIN posts
                    /\ PostById(posts', v.id) = v
                    /\ v.created_at = now
              /\ (ret'.op = "create_comment"
                  /\ create_comment(a.content, a.author_id, a.post_id,
                                    a.parent_id)) =>
                    /\ v.id \notin DOMAIN comments
                    /\ CommentById(comments', v.id) = v
                    /\ v.created_at = now
              /\ (ret'.op = "create_tag" /\ create_tag(a.name, a.kwargs)) =>
                    /\ v.id \notin DOMAIN tags
                    /\ TagById(tags', v.id) = v
                    /\ v.created_at = now
              /\ (ret'.op = "update_user" /\ a.user_id \in DOMAIN users
                  /\ update_user(a.user_id, a.kwargs)) =>
                    /\ UserById(users', a.user_id) = v
                    /\ "email" \in a.kwargs.set => v.email = a.kwargs.email
              /\ (ret'.op = "update_post" /\ a.post_id \in DOMAIN posts
                  /\ update_post(a.post_id, a.kwargs)) =>
                    /\ PostById(posts', a.post_id) = v
                    /\ "title" \in a.kwargs.set => v.title = a.kwargs.title
              /\ (ret'.op = "update_comment"
                  /\ a.comment_id \in DOMAIN comments
                  /\ update_comment(a.comment_id, a.content)) =>
                    /\ CommentById(comments', a.comment_id) = v
                    /\ v.content = a.content
              /\ (ret'.op = "delete_user" /\ a.user_id \in DOMAIN users
                  /\ delete_user(a.user_id)) =>
                    /\ v = True
                    /\ UserById(users', a.user_id) = None
              /\ (ret'.op = "delete_post" /\ a.post_id \in DOMAIN posts
                  /\ delete_post(a.post_id)) =>
                    /\ v = True
                    /\ PostById(posts', a.post_id) = None
              /\ (ret'.op = "delete_comment"
                  /\ a.comment_id \in DOMAIN comments
                  /\ delete_comment(a.comment_id)) =>
                    /\ v = True
                    /\ CommentById(comments', a.comment_id) = None
              /\ (ret'.op = "add_tag_to_post" /\ a.post_id \in DOMAIN posts
                  /\ a.tag_id \in DOMAIN tags
                  /\ add_tag_to_post(a.post_id, a.tag_id)) =>
                    /\ v = PostById(posts', a.post_id)
                    /\ a.tag_id \in PostTagList(post_tags', a.post_id)]_vars

\* create_post has returned a post stamped with the time of its commit, and
\* the store holds that row.
PostStoredAsReturned ==
    /\ ret.op = "create_post"
    /\ ret.exc = ""
    /\ ret.val.id \in DOMAIN posts
    /\ posts[ret.val.id] = ret.val
    /\ ret.val.created_at = now
    /\ now = MaxTime
---------------------------------------------------------------------------
(* Claims of SpecScope. *)

\* C16: a session obtained from the provider is closed on every exit path
\* of the code that holds it, never twice, and no CRUD call is made on it
\* after it was closed: session.close() has run at most once, no call is
\* made once it has run, and it has run when the holder is done.
SessionClosedOnce ==
    [][/\ scope'.closes <= 1
       /\ ret' # ret => scope.closes = 0
       /\ scope'.pc = "done" => scope'.closes >= 1]_vars
---------------------------------------------------------------------------
(* Claims of SpecDump and SpecDumpFair. *)

\* C17: when the pg_dump process exits non-zero or the wait for it times
\* out, the dump function reports failure (run_pg_dump returns (False, ""),
\* the dump functions of pg_dump_helper return None, validate_and_dump
\* returns 1), it has written no file, and neither that step nor any later
\* step of the failed function touches the schema directory or the latest
\* alias.
DumpFailureLeavesNoFile ==
    [][\A r \in Runs :
          LET rec == run[r]
              rec1 == run'[r]
          IN  /\ (/\ rec.pc = "wait"
                  /\ rec1.pc # "wait"
                  /\ rec.child \in {"nonzero", "hang"}) =>
                    /\ rec1.result = "failed"
                    /\ "dump" \in rec1.failed
                    /\ rec1.written = {}
                    /\ rec1.pc \in {"returned", "exit"}
                    /\ rec.fn = "validate_and_dump" =>
                          rec1.pc = "exit" /\ rec1.code = 1
                    /\ fs' = fs
              /\ (rec.result = "failed" /\ rec1 # rec) =>
                    fs' = fs /\ rec.written = {}]_vars

\* validate_and_dump has returned 1 after its wait for pg_dump timed out;
\* the latest alias names the output of the other run, and the directory
\* holds nothing else.
TimedOutBesideOldAlias ==
    \E r, q \in Runs :
        /\ run[r].cli = "validate_and_dump"
        /\ run[r].child = "hang"
        /\ run[r].pc = "exit"
        /\ run[r].code = 1
        /\ run[r].result = "failed"
        /\ run[q].pc = "exit"
        /\ run[q].code = 0
        /\ fs.latest = Dump(run[q].stamp)
        /\ fs.files = run[q].written

\* C18: every wait for the pg_dump process is bounded: when the process
\* never exits, the exporter stops waiting and ends with a failure result,
\* that is, it exits with code 1.
WaitIsBounded ==
    \A r \in Runs :
        (run[r].pc = "wait" /\ run[r].child = "hang")
            ~> (run[r].pc = "exit" /\ run[r].code = 1)

\* C19: an exporter exits with code 0 only when model import, schema
\* creation and the dump all succeeded, and with code 1 whenever one of them
\* failed.
ExitCodeTellsFailure ==
    \A r \in Runs :
        run[r].pc = "exit" =>
            /\ run[r].code \in {0, 1}
            /\ run[r].code = 0 <=> run[r].failed = {}

\* C20: the latest alias is replaced atomically: once it exists, a reader
\* finds it at every instant, and it names a file of the directory.
LatestAlwaysResolves ==
    [][fs.latest # NoLink =>
          fs'.latest # NoLink /\ fs'.latest \in fs'.files]_vars

---------------------------------------------------------------------------
(* utils/schema_dump: the files it writes.  A file is <<dir, kind, t>>,   *)
(* schema_<kind>_<t>.sql in dir; the alias schema_<kind>_latest.sql of     *)
(* dir is a relative symlink, so it names a file of its own directory.     *)

\* The default of the parameter dialects and of --dialects.
DefaultDialects == <<"postgresql", "mysql", "sqlite">>

\* The values of --dialects taken up.
DialectLists == {DefaultDialects, <<"postgresql">>, <<"sqlite", "mysql">>}

\* filepath.write_text(ddl), and open(combined_path, 'w')
WriteFile(d, dir, kind, t) ==
    [d EXCEPT !.files = @ \cup {<<dir, kind, t>>}]

\* An alias that an existing one shields from being replaced.
SymlinkIfAbsent(d, dir, kind, t) ==
    IF d.latest[<<dir, kind>>] # NoStamp THEN d
    ELSE [d EXCEPT !.latest[<<dir, kind>>] = t]

\* if latest_link.exists() or latest_link.is_symlink():
\*     latest_link.unlink()
\* latest_link.symlink_to(filename)
Symlink(d, dir, kind, t) ==
    LET unlinked == IF d.latest[<<dir, kind>>] # NoStamp
                    THEN [d EXCEPT !.latest[<<dir, kind>>] = NoStamp]
                    ELSE d
    IN  [unlinked EXCEPT !.latest[<<dir, kind>>] = t]

\* for dialect_name in dialects: the file, then its alias
RECURSIVE DumpDialects(_, _, _, _)
DumpDialects(d, dir, dialects, t) ==
    IF dialects = <<>> THEN d
    ELSE DumpDialects(Symlink(WriteFile(d, dir, Head(dialects), t),
                              dir, Head(dialects), t),
                      dir, Tail(dialects), t)

\* dump_schema_to_file(output_dir, dialects) run at the second t: the
\* files of the dialects, then the combined file and its alias.
DumpSchemaToFile(d, output_dir, dialects, t) ==
    Symlink(WriteFile(DumpDialects(d, output_dir, dialects, t),
                      output_dir, "all", t),
            output_dir, "all", t)

\* dump_current_database_schema(): Path("schema"), schema_from_db_<t>.sql
DumpCurrentDatabaseSchema(d, t) ==
    Symlink(WriteFile(d, "schema", "from_db", t), "schema", "from_db", t)

\* The command lines of schema_dump.py.
SchemaDumpArgs ==
    [validate : BOOLEAN, from_db : BOOLEAN, output_dir : Dirs,
     dialects : DialectLists]

\* python schema_dump.py [--validate] [--from-db] [--output-dir D]
\* [--dialects ...] run at the second `now`.  --validate runs
\* validate_and_dump(), which calls dump_schema_to_file() with its
\* defaults and exits with 0; --from-db runs
\* dump_current_database_schema(); otherwise
\* dump_schema_to_file(args.output_dir, args.dialects).  The outcome keeps
\* the arguments, the second, and the function that wrote.
schema_dump_main(args) ==
    LET fn == IF args.validate THEN "validate_and_dump"
              ELSE IF args.from_db THEN "dump_current_database_schema"
              ELSE "dump_schema_to_file"
    IN  /\ sd' = CASE fn = "validate_and_dump" ->
                        DumpSchemaToFile(sd, "schema", DefaultDialects, now)
                   [] fn = "dump_current_database_schema" ->
                        DumpCurrentDatabaseSchema(sd, now)
                   [] OTHER ->
                        DumpSchemaToFile(sd, args.output_dir, args.dialects,
                                         now)
        /\ Returns("schema_dump",
                   [argv |-> args, fn |-> fn, timestamp |-> now],
                   IF args.validate THEN 0 ELSE None)
        /\ UNCHANGED <<tables, seq, now, sess, dialect, appended, scope, fs,
                       run, calls>>

NextSchema ==
    \/ Tick
    \/ \E args \in SchemaDumpArgs : schema_dump_main(args)

SpecSchema == Init /\ [][NextSchema]_vars

---------------------------------------------------------------------------
(* C21 *)

\* The elements of a list of dialects.
Range(list) == {list[i] : i \in DOMAIN list}

\* What a completed dump_schema_to_file(dir, dialects) of the second t
\* leaves in d: each dialect's file, its alias on that file, the combined
\* file and its alias.
DumpedAndAliased(d, dir, dialects, t) ==
    /\ \A k \in Range(dialects) \cup {"all"} :
          /\ <<dir, k, t>> \in d.files
          /\ d.latest[<<dir, k>>] = t

\* C21: after every completed run of dump_schema_to_file, whatever runs
\* came before it, each requested dialect's timestamped file exists,
\* schema_<dialect>_latest.sql points to the file this run wrote for the
\* dialect, and schema_all_latest.sql points to this run's combined file.
AliasesFollowTheRun ==
    ret.op = "schema_dump" =>
        LET a == ret.args
        IN  /\ a.fn = "dump_schema_to_file" =>
                  DumpedAndAliased(sd, a.argv.output_dir, a.argv.dialects,
                                   a.timestamp)
            /\ a.fn = "validate_and_dump" =>
                  DumpedAndAliased(sd, "schema", DefaultDialects,
                                   a.timestamp)

\* A run has replaced the aliases an earlier run of another second left
\* in the same directory.
AliasesMovedToLaterRun ==
    /\ ret.op = "schema_dump"
    /\ ret.args.fn = "dump_schema_to_file"
    /\ ret.args.timestamp = 2
    /\ LET dir == ret.args.argv.output_dir
       IN  /\ <<dir, "postgresql", 1>> \in sd.files
           /\ <<dir, "all", 1>> \in sd.files
           /\ "postgresql" \in Range(ret.args.argv.dialects)
           /\ sd.latest[<<dir, "postgresql">>] = 2
           /\ sd.latest[<<dir, "all">>] = 2

---------------------------------------------------------------------------
(* C26 *)

\* C26: in every mode of schema_dump.py (plain dump, --validate,
\* --from-db) the files and aliases a run writes are in the directory
\* --output-dir names.
FilesGoToOutputDir ==
    [][ret'.op = "schema_dump" =>
          LET dir == ret'.args.argv.output_dir
          IN  /\ \A f \in sd'.files \ sd.files : f[1] = dir
              /\ \A k \in Dirs \X Kinds :
                    sd'.latest[k] # sd.latest[k] => k[1] = dir]_vars

---------------------------------------------------------------------------
(* utils/schema_dump.get_dialect_ddl, a function of a registry of tables   *)
(* (metadata) and a dialect name.  A table is the rank of its name among   *)
(* the names in ascending order, so that the order of two names is the     *)
(* order of two numbers.                                                   *)

MaxDdlTables == 3
TableKeys == 1..MaxDdlTables

\* Column.default of a column declared without default=.
NoDefault == "None"

\* The columns each table of a registry is given here: an integer primary
\* key, a text column, and a column with a default.  Column.autoincrement
\* is "auto" unless the model says otherwise, and no model does.
Columns ==
    <<[name |-> "id", type |-> "Integer", primary_key |-> TRUE,
       autoincrement |-> "auto", default |-> NoDefault],
      [name |-> "content", type |-> "Text", primary_key |-> FALSE,
       autoincrement |-> "auto", default |-> NoDefault],
      [name |-> "created_at", type |-> "DateTime", primary_key |-> FALSE,
       autoincrement |-> "auto", default |-> "utcnow"]>>

\* bool(column.autoincrement): a non-empty string is true.
Truthy(v) == v \notin {"False", ""}

\* The column the database numbers by itself: table._autoincrement_column,
\* an integer primary key whose autoincrement is "auto" or True.
AutoIncrementing(col) ==
    /\ col.primary_key
    /\ col.type = "Integer"
    /\ col.autoincrement \in {"auto", "True"}

\* A registry: the tables, the tables each one's foreign keys refer to,
\* and the tables whose id column carries index=True.  A foreign key to
\* the table itself is allowed; the foreign keys have no other cycle.
Registries ==
    {m \in [tables : SUBSET TableKeys,
            refs : [TableKeys -> SUBSET TableKeys],
            indexed : SUBSET TableKeys] :
        /\ m.indexed \subseteq m.tables
        /\ \A t \in TableKeys : m.refs[t] \subseteq
                                    (IF t \in m.tables THEN m.tables ELSE {})
        /\ \A S \in SUBSET m.tables \ {{}} :
              \E t \in S : (m.refs[t] \ {t}) \cap S = {}}

\* sorted(keys): the keys in ascending order.
RECURSIVE Sorted(_)
Sorted(S) ==
    IF S = {} THEN <<>>
    ELSE LET m == CHOOSE i \in S : \A j \in S : i <= j
         IN  <<m>> \o Sorted(S \ {m})

\* MetaData.sorted_tables: the tables in order of foreign key dependency.
\* sqlalchemy sorts the tables by key and then emits, round after round,
\* the tables that refer to no table still to be emitted.
RECURSIVE SortedTables(_, _)
SortedTables(m, todo) ==
    IF todo = {} THEN <<>>
    ELSE LET output == {t \in todo : (m.refs[t] \ {t}) \cap todo = {}}
         IN  Sorted(output) \o SortedTables(m, todo \ output)

sorted_tables(m) == SortedTables(m, m.tables)

\* dialects.get(dialect_name, postgresql.dialect())
CompilerOf(dialect_name) ==
    IF dialect_name \in DialectNames THEN dialect_name ELSE "postgresql"

\* One element of ddl_statements: the text up to the names, the table and
\* the column it is about (0 and "" when none), the list of names of the
\* header, and the dialect that compiled the statement ("" for a comment).
Line(text, table, column) ==
    [text |-> text, table |-> table, column |-> column, names |-> <<>>,
     dialect |-> ""]
Compiled(text, table, column, dialect_name) ==
    [Line(text, table, column) EXCEPT !.dialect = CompilerOf(dialect_name)]
Blank == Line("", 0, "")

Header(m, dialect_name) ==
    <<Line("-- SQLAlchemy Schema Dump", 0, ""),
      Line("-- Generated:", 0, ""),
      [Line("-- Dialect:", 0, "") EXCEPT !.dialect = dialect_name],
      [Line("-- Tables:", 0, "") EXCEPT !.names = Sorted(m.tables)],
      Blank>>

\* for column in table.columns:
\*     if column.autoincrement and column.default is None:
RECURSIVE SequencesOfColumns(_, _)
SequencesOfColumns(t, cols) ==
    IF cols = <<>> THEN <<>>
    ELSE LET c == Head(cols)
         IN  (IF Truthy(c.autoincrement) /\ c.default = NoDefault
              THEN <<Line("-- Sequence for", t, c.name),
                     Line("CREATE SEQUENCE IF NOT EXISTS", t, c.name),
                     Blank>>
              ELSE <<>>)
             \o SequencesOfColumns(t, Tail(cols))

RECURSIVE SequencesOf(_)
SequencesOf(ts) ==
    IF ts = <<>> THEN <<>>
    ELSE SequencesOfColumns(Head(ts), Columns) \o SequencesOf(Tail(ts))

RECURSIVE TablesOf(_, _)
TablesOf(ts, dialect_name) ==
    IF ts = <<>> THEN <<>>
    ELSE <<Line("-- Table:", Head(ts), ""),
           Compiled("CREATE TABLE", Head(ts), "", dialect_name),
           Blank>>
         \o TablesOf(Tail(ts), dialect_name)

\* The index loop; has_indexes tells whether the heading was written.
RECURSIVE IndexesOf(_, _, _, _)
IndexesOf(m, ts, dialect_name, has_indexes) ==
    IF ts = <<>> THEN <<>>
    ELSE IF Head(ts) \notin m.indexed
    THEN IndexesOf(m, Tail(ts), dialect_name, has_indexes)
    ELSE (IF has_indexes THEN <<>> ELSE <<Line("-- Indexes", 0, "")>>)
         \o <<Line("-- Index:", Head(ts), "id"),
              Compiled("CREATE INDEX", Head(ts), "id", dialect_name),
              Blank>>
         \o IndexesOf(m, Tail(ts), dialect_name, TRUE)

\* get_dialect_ddl(metadata, dialect_name): the elements of ddl_statements,
\* which the function joins with newlines.
get_dialect_ddl(metadata, dialect_name) ==
    Header(metadata, dialect_name)
    \o (IF dialect_name = "postgresql"
        THEN SequencesOf(sorted_tables(metadata)) ELSE <<>>)
    \o <<Line("-- Tables", 0, "")>>
    \o TablesOf(sorted_tables(metadata), dialect_name)
    \o IndexesOf(metadata, sorted_tables(metadata), dialect_name, FALSE)

\* The dialect names a caller passes: the three known ones and one the
\* dictionary of dialects does not hold.
DialectArgs == DialectNames \cup {"oracle"}

\* A caller about to pass a registry and a dialect name, on the database
\* of Init.
InitDdl ==
    /\ users = <<>>
    /\ posts = <<>>
    /\ comments = <<>>
    /\ tags = <<>>
    /\ post_tags = {}
    /\ seq = [users |-> 1, posts |-> 1, comments |-> 1, tags |-> 1]
    /\ now = 1
    /\ sess = "active"
    /\ dialect = "postgresql"
    /\ appended = {"users", "posts"}
    /\ scope = NoScope
    /\ fs = EmptyDir
    /\ run = NoRuns
    /\ sd = EmptyDirs
    /\ calls = NoCalls
    /\ \E m \in Registries, d \in DialectArgs :
          ret = Outcome("arguments", [metadata |-> m, dialect_name |-> d],
                        "", None, NoRows)

\* ddl = get_dialect_ddl(Base.metadata, dialect_name)
call_get_dialect_ddl ==
    /\ ret.op = "arguments"
    /\ Returns("get_dialect_ddl", ret.args,
               get_dialect_ddl(ret.args.metadata, ret.args.dialect_name))
    /\ UNCHANGED <<tables, seq, now, sess, dialect, appended, outside>>

NextDdl == call_get_dialect_ddl

SpecDdl == InitDdl /\ [][NextDdl]_vars

\* The positions of the statements that start with text.
Positions(out, text) == {i \in DOMAIN out : out[i].text = text}

---------------------------------------------------------------------------
(* C22 *)

\* C22: for every registry and every dialect the CREATE TABLE statements
\* of get_dialect_ddl, each preceded by its "-- Table: <name>" comment,
\* appear in ascending order of table name.
CreateTablesByName ==
    ret.op = "get_dialect_ddl" =>
        LET out == ret.val
            P == Positions(out, "CREATE TABLE")
        IN  /\ {out[i].table : i \in P} = ret.args.metadata.tables
            /\ \A i \in P : /\ out[i - 1].text = "-- Table:"
                            /\ out[i - 1].table = out[i].table
            /\ \A i, j \in P : i < j => out[i].table < out[j].table

---------------------------------------------------------------------------
(* C23 *)

\* C23: the sections of get_dialect_ddl's text come in this order: all
\* table-creation statements; then the index-creation statements under a
\* single "Indexes" heading; then, for the PostgreSQL dialect only, the
\* sequence-creation statements, one for each auto-incrementing column
\* with no explicit default.  MySQL and SQLite get no sequence statement.
SectionsInOrder ==
    ret.op = "get_dialect_ddl" =>
        LET out == ret.val
            m == ret.args.metadata
            T == Positions(out, "CREATE TABLE")
            I == Positions(out, "CREATE INDEX")
            S == Positions(out, "CREATE SEQUENCE IF NOT EXISTS")
            H == Positions(out, "-- Indexes")
        IN  /\ \A t \in T, i \in I \cup S : t < i
            /\ \A i \in I, s \in S : i < s
            /\ Cardinality(H) = IF I = {} THEN 0 ELSE 1
            /\ \A h \in H : /\ \A t \in T : t < h
                            /\ \A i \in I : h < i
                            /\ \A s \in S : h < s
            /\ ret.args.dialect_name # "postgresql" => S = {}
            /\ ret.args.dialect_name = "postgresql" =>
                  {<<out[s].table, out[s].column>> : s \in S} =
                  {<<t, Columns[c].name>> : t \in m.tables,
                      c \in {c \in DOMAIN Columns :
                                /\ AutoIncrementing(Columns[c])
                                /\ Columns[c].default = NoDefault}}

---------------------------------------------------------------------------
(* C25 *)

\* C25: run_alembic_migrations returns True if the migrations were applied
\* and False otherwise, and when it returned False validate_and_dump
\* creates the tables from the models before it dumps: a run that is past
\* its schema step after a failed migration dumps tables that create_all
\* made, unless create_all failed as well and the run ended with 1.
MigrationFailureFallsBack ==
    \A r \in Runs :
        (run[r].fn = "validate_and_dump" /\ run[r].mode = "migrations"
         /\ run[r].pc \notin {"idle", "schema"}) =>
            /\ run[r].alembic = True <=> "migration" \notin run[r].failed
            /\ run[r].alembic = False =>
                  \/ run[r].schema = "create_all"
                  \/ run[r].pc = "exit" /\ run[r].code = 1
                     /\ "create" \in run[r].failed
            /\ "migration" \in run[r].failed => run[r].alembic = False

---------------------------------------------------------------------------
(* C24 *)

\* C24: after delete_comment(c) returns True for a comment with replies,
\* no stored comment has parent_id c and every comment of c's reply
\* subtree is absent: replies are deleted, not made top-level comments.
RepliesDeletedWithParent ==
    [][(ret'.op = "delete_comment" /\ ret'.exc = "" /\ ret'.val = True) =>
          LET c == ret'.args.comment_id
          IN  delete_comment(c) =>
                 /\ RepliesTo(comments', {c}) = {}
                 /\ Subtree(comments, {c}) \cap DOMAIN comments' = {}]_vars

---------------------------------------------------------------------------
(* C27 *)

\* Comment d is stored with post_id P2 and replies to a comment stored
\* with another post_id.
CrossPostReply(cs, d) ==
    /\ d \in DOMAIN cs
    /\ cs[d].parent_id \in DOMAIN cs
    /\ cs[cs[d].parent_id].post_id # cs[d].post_id

---------------------------------------------------------------------------
(* SpecForest: the CommentCRUD operations that write, on the posts of one  *)
(* user.                                                                   *)

MaxForestUsers == 1
MaxForestPosts == 1

NextForest ==
    \/ /\ seq.users <= MaxForestUsers
       /\ \E a \in Accounts : create_user(a[1], a[2], Password)
    \/ /\ seq.posts <= MaxForestPosts
       /\ create_post("Post 1", "Content 1", 1, NoKw)
    \/ \E par \in CommentIds \cup {NULL} :
           create_comment("Comment 1", 1, 1, par)
    \/ \E id \in CommentIds, c \in Contents : update_comment(id, c)
    \/ \E id \in CommentIds : delete_comment(id)
    \/ Tick

SpecForest == Init /\ [][NextForest]_vars

---------------------------------------------------------------------------
(* C28 *)

\* Following parent_id from comment c reaches a comment with a null
\* parent_id within n steps.
RECURSIVE ReachesRoot(_, _, _)
ReachesRoot(cs, c, n) ==
    IF cs[c].parent_id = NULL THEN TRUE
    ELSE IF n = 0 \/ cs[c].parent_id \notin DOMAIN cs THEN FALSE
    ELSE ReachesRoot(cs, cs[c].parent_id, n - 1)

\* C28: the reply relation is a forest in every reachable state: from
\* every stored comment, following parent_id reaches a comment with a
\* null parent_id in finitely many steps, and no comment is its own
\* ancestor.
RepliesFormForest ==
    \A c \in DOMAIN comments :
        ReachesRoot(comments, c, Cardinality(DOMAIN comments))

---------------------------------------------------------------------------
(* SpecFrame: deleting comments and posts beside users, tags, other posts  *)
(* and other comments, with replies across posts.                          *)

MaxFrameUsers == 1
MaxFrameTags == 1

NextFrame ==
    \/ /\ seq.users <= MaxFrameUsers
       /\ \E a \in Accounts : create_user(a[1], a[2], Password)
    \/ create_post("Post 1", "Content 1", 1, NoKw)
    \/ /\ seq.tags <= MaxFrameTags
       /\ \E n \in TagNames : create_tag(n, NoKw)
    \/ \E p \in PostIds, t \in TagIds : add_tag_to_post(p, t)
    \/ \E p \in PostIds, par \in CommentIds \cup {NULL} :
           create_comment("Comment 1", 1, p, par)
    \/ \E id \in CommentIds : delete_comment(id)
    \/ \E id \in PostIds : delete_post(id)

SpecFrame == Init /\ [][NextFrame]_vars

---------------------------------------------------------------------------
(* C30 *)

\* Row i of the table is stored after the step as it was before.
Kept(before, after, i) == i \in DOMAIN after /\ after[i] = before[i]

\* C30: cascades only go from owner to dependent.  delete_comment leaves
\* every user, post and tag, and every comment outside the deleted
\* comment's reply subtree, unchanged; delete_post leaves every user,
\* every tag, every other post, and every comment of another post that
\* does not reply to a comment of the deleted post, unchanged.
DeletesLeaveTheRest ==
    [][(sess = "active" /\ ret'.exc = "" /\ ret'.val = True
        /\ ret'.op \in {"delete_comment", "delete_post"}) =>
          /\ ret'.op = "delete_comment" =>
                LET c == ret'.args.comment_id
                IN  delete_comment(c) =>
                       /\ users' = users
                       /\ posts' = posts
                       /\ tags' = tags
                       /\ post_tags' = post_tags
                       /\ \A d \in DOMAIN comments \ Subtree(comments, {c}) :
                             Kept(comments, comments', d)
          /\ ret'.op = "delete_post" =>
                LET p == ret'.args.post_id
                IN  delete_post(p) =>
                       /\ users' = users
                       /\ tags' = tags
                       /\ \A q \in DOMAIN posts \ {p} :
                             /\ Kept(posts, posts', q)
                             /\ PostTagList(post_tags', q)
                                    = PostTagList(post_tags, q)
                       /\ \A d \in DOMAIN comments :
                             (/\ comments[d].post_id # p
                              /\ d \notin RepliesTo(comments,
                                                    CommentsOfPosts({p}))) =>
                                 Kept(comments, comments', d)]_vars

\* delete_post has removed a post and its comment while a reply to a reply
\* to that comment, both stored on the other post, stays as it was, beside
\* a tag and the other post.
ReplyChainOnOtherPostKept ==
    /\ ret.op = "delete_post"
    /\ ret.exc = ""
    /\ ret.val = True
    /\ DOMAIN ret.deleted.comments # {}
    /\ tags # <<>>
    /\ \E d, e \in DOMAIN comments :
          /\ comments[d].post_id # ret.args.post_id
          /\ comments[e].post_id # ret.args.post_id
          /\ comments[e].parent_id = d
          /\ d # e
          /\ comments[d].parent_id = NULL

---------------------------------------------------------------------------
(* Two callers of the delete helpers, each with a session of its own on    *)
(* the same database.  A call is two steps, the query and the commit; the  *)
(* Session keeps the object the query loaded until the commit.             *)

DeleteHelpers == {"delete_user", "delete_post", "delete_comment"}

\* The table a delete helper queries.
TableOf(op) ==
    CASE op = "delete_user" -> users
      [] op = "delete_post" -> posts
      [] OTHER -> comments

\* user = db.query(User).filter(User.id == user_id).first(), and the like:
\* `if user:` is false when no row was found, and the helper returns False.
delete_lookup(c, op, id) ==
    /\ calls[c].pc = "idle"
    /\ calls' = [calls EXCEPT ![c] =
                    IF id \in DOMAIN TableOf(op)
                    THEN [@ EXCEPT !.pc = "loaded", !.op = op, !.id = id]
                    ELSE [@ EXCEPT !.pc = "returned", !.op = op, !.id = id,
                                   !.val = False]]
    /\ UNCHANGED <<tables, seq, now, sess, dialect, appended, ret, scope, fs,
                   run, sd>>

\* db.delete(user); db.commit(); return True.  The flush loads what the
\* delete cascades to and emits the DELETE statements.  When the row has
\* been deleted since the query, the DELETE matches no row: without a
\* version counter on the mapper, SQLAlchemy warns ("expected to delete 1
\* row(s); 0 were matched") and commits.
delete_commit(c) ==
    LET op == calls[c].op
        id == calls[c].id
        del == CASE op = "delete_user" -> UserCascade(id)
                 [] op = "delete_post" ->
                        [users |-> {}, posts |-> {id},
                         comments |-> CommentsOfPosts({id})]
                 [] OTHER ->
                        [users |-> {}, posts |-> {}, comments |-> {id}]
    IN  /\ calls[c].pc = "loaded"
        /\ calls' = [calls EXCEPT ![c] =
                        [@ EXCEPT !.pc = "returned", !.val = True]]
        /\ IF id \in DOMAIN TableOf(op)
           THEN /\ users' = Without(users, del.users)
                /\ posts' = Without(posts, del.posts)
                /\ comments' = DeleteComments(comments, del.comments)
                /\ post_tags' = TagsWithout(del.posts)
                /\ appended' = Touched((IF del.users # {} THEN {"users"}
                                        ELSE {}) \cup
                                       (IF del.posts # {} THEN {"posts"}
                                        ELSE {}))
                /\ UNCHANGED tags
           ELSE UNCHANGED <<tables, appended>>
        /\ UNCHANGED <<seq, now, sess, dialect, ret, scope, fs, run, sd>>

MaxRaceUsers == 1
MaxRacePosts == 1
MaxRaceComments == 2

NextRace ==
    \/ /\ seq.users <= MaxRaceUsers
       /\ \E a \in Accounts : create_user(a[1], a[2], Password)
    \/ /\ seq.posts <= MaxRacePosts
       /\ create_post("Post 1", "Content 1", 1, NoKw)
    \/ /\ seq.comments <= MaxRaceComments
       /\ \E par \in CommentIds \cup {NULL} :
              create_comment("Comment 1", 1, 1, par)
    \/ \E c \in Callers, op \in DeleteHelpers, id \in 1..MaxRaceComments :
           delete_lookup(c, op, id)
    \/ \E c \in Callers : delete_commit(c)

SpecRace == Init /\ [][NextRace]_vars

---------------------------------------------------------------------------
(* C29 *)

\* C29: when two callers with units of work of their own call the same
\* delete helper on the same stored id, then under every interleaving of
\* their queries and commits each call returns a boolean, exactly one of
\* them True and the other False, and neither raises.
ExactlyOneDeleteSucceeds ==
    \A c, d \in Callers :
        (/\ c # d
         /\ calls[c].pc = "returned" /\ calls[d].pc = "returned"
         /\ calls[c].op = calls[d].op /\ calls[c].id = calls[d].id
         /\ calls[c].val = True) =>
            /\ calls[d].val = False
            /\ calls[c].exc = "" /\ calls[d].exc = ""
=============================================================================
